---------------------------- MODULE Spec2Model ----------------------------
(***************************************************************************)
(* A model of the filerec recovery engine (RecoveryEngine) and of the      *)
(* device reader it drives (DiskScanner).                                  *)
(*                                                                         *)
(* Threads of the engine model (specification Spec):                       *)
(*   - the caller, which runs startRecovery() up to MaxRuns times;         *)
(*   - the chunk tasks that performSignatureRecovery() launches with       *)
(*     std::async, one per chunk;                                          *)
(*   - a second client thread, which calls stopRecovery().                 *)
(* Threads of the device-reader model (specification SpecScan): readers    *)
(* that call DiskScanner::readChunk concurrently.                          *)
(***************************************************************************)
EXTENDS Integers, Sequences, FiniteSets, TLC

(***************************************************************************)
(* Bounds of the model.                                                    *)
(***************************************************************************)
MaxThreads == 2
MaxChunkSize == 2
MaxRuns == 2
MaxStops == 1
MaxReaders == 2
MaxReads == 2
SizeBits == 4

VARIABLES
    \* ---- the inputs of one behaviour: never change
    config_,            \* RecoveryEngine::config_ (ScanConfig)
    image,              \* the device image behind config_.device_path
    hardware_concurrency, \* what std::thread::hardware_concurrency() returns
    \* ---- DiskScanner
    is_initialized_,    \* DiskScanner::is_initialized_
    device_size_,       \* DiskScanner::device_size_
    fd_pos,             \* the file offset of device_fd_ (kernel state)
    access_mutex_,      \* DiskScanner::access_mutex_: Unlocked or HeldBy(thread)
    rd,                 \* readers of SpecScan: the position of each in readChunk
    \* ---- RecoveryEngine
    is_running_,        \* std::atomic<bool>
    should_stop_,       \* std::atomic<bool>
    current_progress_,  \* std::atomic<double>, as an exact fraction
    recovered_files_,   \* std::vector<RecoveredFile>
    results_mutex_,     \* results_mutex_: Unlocked or HeldBy(thread)
    output_files,       \* the file names written under config_.output_directory
    \* ---- the caller, inside startRecovery()
    pc,                 \* its position
    run_status,         \* startRecovery: the local variable status
    status,             \* the RecoveryStatus of the last call that returned
    runs,               \* calls of startRecovery() made so far
    phase_files,        \* the local metadata_files / signature_files
    i,                  \* performSignatureRecovery: the loop index
    futures,            \* performSignatureRecovery: the local vector of futures
    recovered,          \* performSignatureRecovery: the local result vector
    save_i,             \* startRecovery: position of the save loop
    \* ---- chunk tasks
    task,               \* state of the async task of every chunk
    completed_chunks,   \* std::atomic<size_t> shared by the tasks of one run
    \* ---- the client thread inside stopRecovery()
    spc,                \* its position
    stops,              \* calls of stopRecovery() made so far
    \* ---- history: what was observed, for the properties
    progress_log,       \* values handed to progress_callback_ in this call
    list_writes,        \* who modified recovered_files_, and under which lock
    stop_req,           \* stopRecovery() raised should_stop_ during this call
    hist,               \* what the current call of startRecovery() has done
    run_results,        \* the record sets left by the calls that ran undisturbed
    \* ---- the specifications of single operations
    call                \* the last operation applied, its arguments and its result

scanVars == <<is_initialized_, device_size_, fd_pos, access_mutex_, rd>>
engineVars == <<is_running_, should_stop_, current_progress_, recovered_files_,
                results_mutex_, output_files>>
callerVars == <<pc, run_status, status, runs, phase_files, i, futures, recovered, save_i>>
taskVars == <<task, completed_chunks>>
stopVars == <<spc, stops>>
histVars == <<progress_log, list_writes, stop_req, hist, run_results>>
vars == <<config_, image, hardware_concurrency, scanVars, engineVars, callerVars,
          taskVars, stopVars, histVars, call>>

\* no operation applied yet
NoCall == [op |-> "none"]

\* a mutex is held by no thread, or by thread t
Unlocked == <<>>
HeldBy(t) == <<t>>
Caller == "caller"

(***************************************************************************)
(* Device images.  A cell holds noise ("") or one whole file of the named  *)
(* format.  fs and dir stand for the filesystem metadata on the image: the *)
(* records the matching parser returns from recoverDeletedFiles().         *)
(***************************************************************************)
FsEntry(name, off, size) ==
    [filename |-> name, file_type |-> "fs", start_offset |-> off, file_size |-> size]

Images ==
    { [bytes |-> <<"JPEG", "PNG", "JPEG">>, fs |-> "FAT32",
       dir |-> <<FsEntry("b.jpg", 2, 1), FsEntry("a.txt", 1, 2)>>],
      [bytes |-> <<"", "JPEG">>, fs |-> "UNKNOWN", dir |-> <<>>],
      [bytes |-> <<"PNG", "JPEG">>, fs |-> "NTFS",
       dir |-> <<FsEntry("big.bin", 1, 2)>>],
      [bytes |-> <<>>, fs |-> "UNKNOWN", dir |-> <<>>] }

DevicePaths == {"", "missing.img", "disk.img"}
OutputDirs == {"", "out", "/proc/x/out"}

\* stat()/open() of the path succeed (verifyDeviceAccess, open)
DeviceExists(path) == path = "disk.img"

\* std::filesystem::create_directories(dir) throws
CreateDirectoriesThrows(dir) == dir \in {"", "/proc/x/out"}

Configs ==
    [device_path : DevicePaths, output_directory : OutputDirs,
     use_metadata_recovery : BOOLEAN, use_signature_recovery : BOOLEAN,
     num_threads : 0..MaxThreads, chunk_size : 1..MaxChunkSize]

\* values of std::thread::hardware_concurrency(): 0 is "not computable"
HardwareThreads == {0, 1}

(***************************************************************************)
(* Sequences.                                                              *)
(***************************************************************************)
Min(a, b) == IF a <= b THEN a ELSE b

Range(s) == {s[k] : k \in DOMAIN s}

RemoveAt(s, k) == [j \in 1..(Len(s) - 1) |-> IF j < k THEN s[j] ELSE s[j + 1]]

\* the bytes [offset, offset + n) of a 0-based buffer held as a 1-based sequence
Slice(bytes, offset, n) == [j \in 1..n |-> bytes[offset + j]]

(***************************************************************************)
(* Progress values: doubles in the code, exact fractions num/den here.     *)
(***************************************************************************)
Pct(x) == [num |-> x, den |-> 1]

Leq(a, b) == a.num * b.den <= b.num * a.den

\* the division by the number of chunks forgotten
ChunkProgress_NoDivision(completed, total) == [num |-> 35 + 45 * completed, den |-> 1]

\* performSignatureRecovery: 35.0 + (45.0 * completed / num_chunks)
ChunkProgress(completed, total) ==
    [num |-> 35 * total + 45 * completed, den |-> total]

(***************************************************************************)
(* DiskScanner.                                                            *)
(***************************************************************************)
\* getDeviceSizeInternal(): the size of the opened file
getDeviceSizeInternal == Len(image.bytes)

\* initialize(): TRUE iff it leaves the scanner initialized
InitializeSucceeds ==
    \/ is_initialized_
    \/ DeviceExists(config_.device_path) /\ getDeviceSizeInternal # 0

\* Offset and Size are uint64_t: sums wrap at 2^64, here at 2^SizeBits
SizeModulus == 2 ^ SizeBits

Wrap(x) == x % SizeModulus

\* readChunk: the size it asks read() for, after the clamp to the device end
ClampedSize(offset, size) ==
    IF Wrap(offset + size) > device_size_ THEN device_size_ - offset ELSE size

\* readChunk returns 0 before it takes the lock
ReadChunkRejects(offset) == ~is_initialized_ \/ offset >= device_size_

\* the lseek forgotten: read() at the start of the device
ReadAt_NoSeek(pos, size) == Slice(image.bytes, 0, Min(size, Len(image.bytes)))

\* lseek(fd, offset) then read(fd, buffer, size): the bytes at the position
\* of the descriptor; read() stops at the end of the file
ReadAt(pos, size) == Slice(image.bytes, pos, Min(size, Len(image.bytes) - pos))

\* readChunk as one call made while no other thread is inside it
ReadChunk(offset, size) ==
    IF ReadChunkRejects(offset) THEN <<>>
    ELSE ReadAt(offset, ClampedSize(offset, size))

(***************************************************************************)
(* Carvers and parsers, as the engine sees them: functions of the bytes    *)
(* they are handed.                                                        *)
(***************************************************************************)
\* initializeDefaultModules(): the carvers, in registration order
file_carvers_ == <<"JPEG", "PDF", "PNG", "ZIP">>

Extension(carver) ==
    CASE carver = "JPEG" -> "jpg" [] carver = "PDF" -> "pdf"
      [] carver = "PNG" -> "png" [] carver = "ZIP" -> "zip"

HexDigit(d) ==
    <<"0", "1", "2", "3", "4", "5", "6", "7", "8", "9", "a", "b", "c", "d", "e", "f">>[d + 1]

\* BaseCarver::generateFilename: "recovered_" + hex16(offset) + "." + type
generateFilename(offset, ext) ==
    "recovered_" \o "000000000000000" \o HexDigit(offset) \o "." \o ext

RECURSIVE CarveFrom(_, _, _, _)
CarveFrom(carver, data, base_offset, j) ==
    IF j > Len(data) THEN <<>>
    ELSE (IF data[j] = carver
          THEN << [filename |-> generateFilename(base_offset + j - 1, Extension(carver)),
                   file_type |-> carver,
                   start_offset |-> base_offset + j - 1,
                   file_size |-> 1] >>
          ELSE <<>>) \o CarveFrom(carver, data, base_offset, j + 1)

\* FileCarver::carveFiles(data, size, base_offset)
carveFiles(carver, data, base_offset) == CarveFrom(carver, data, base_offset, 1)

\* performMetadataRecovery(): the records of the parser that matches the
\* detected filesystem, or nothing
performMetadataRecovery ==
    IF Len(ReadChunk(0, 8192)) = 0 THEN <<>>
    ELSE IF image.fs = "UNKNOWN" THEN <<>>
    ELSE image.dir

(***************************************************************************)
(* deduplicateFiles.                                                       *)
(***************************************************************************)
\* the comparator of std::sort: by start_offset, then by file_size
SortLess(a, b) ==
    IF a.start_offset # b.start_offset THEN a.start_offset < b.start_offset
    ELSE a.file_size < b.file_size

\* the predicate of std::unique
SameFile(a, b) == a.start_offset = b.start_offset /\ a.file_size = b.file_size

IsSortedBy(s) == \A k \in 1..(Len(s) - 1) : ~SortLess(s[k + 1], s[k])

\* std::sort is not stable: every ordering of s that the comparator accepts is
\* a possible outcome
RECURSIVE SortOutcomes(_)
SortOutcomes(s) ==
    IF s = <<>> THEN {<<>>}
    ELSE UNION { { <<s[k]>> \o t : t \in SortOutcomes(RemoveAt(s, k)) } :
                 k \in {m \in DOMAIN s : \A n \in DOMAIN s : ~SortLess(s[n], s[m])} }

\* the erase after std::unique forgotten: nothing is removed
Unique_NoErase(s) == s

\* std::unique + erase: of every run of consecutive equal elements keep the first
RECURSIVE Unique(_)
Unique(s) ==
    IF Len(s) <= 1 THEN s
    ELSE LET rest == Unique(Tail(s))
         IN  IF SameFile(s[1], rest[1]) THEN <<s[1]>> \o Tail(rest)
             ELSE <<s[1]>> \o rest

\* the lists deduplicateFiles() may leave in recovered_files_
deduplicateFiles(files) == { Unique(t) : t \in SortOutcomes(files) }

(***************************************************************************)
(* The engine: initial state.                                              *)
(***************************************************************************)
NoTask == [st |-> "none", data |-> <<>>, k |-> 1, results |-> <<>>, completed |-> 0]

\* the states of a chunk task whose thread is executing
Executing == {"read", "carve", "count", "report"}

\* the states of a chunk task whose future is ready
Finished == {"ready", "threw", "collected"}

\* the floor division in place of the rounding up
num_chunks_Floor == device_size_ \div config_.chunk_size

\* performSignatureRecovery: (device_size + chunk_size - 1) / chunk_size
num_chunks == (device_size_ + config_.chunk_size - 1) \div config_.chunk_size

\* line 372: the fallback when hardware_concurrency() returns 0
FallbackThreads == 4

\* getOptimalThreadCount(): max(1, hardware_threads - 1)
getOptimalThreadCount ==
    LET hardware_threads == IF hardware_concurrency = 0 THEN FallbackThreads
                            ELSE hardware_concurrency
    IN  IF hardware_threads - 1 > 1 THEN hardware_threads - 1 ELSE 1

\* performSignatureRecovery, line 234: the local num_threads
num_threads ==
    IF config_.num_threads > 0 THEN config_.num_threads ELSE getOptimalThreadCount

\* the test made after the push_back instead of before the launch, and strict
PoolFull_Strict(n) == n > num_threads

\* line 277: futures.size() >= num_threads
PoolFull(n) == n >= num_threads

\* performSignatureRecovery: the chunk of index c
chunk_start(c) == c * config_.chunk_size
current_chunk_size(c) == Min(config_.chunk_size, device_size_ - chunk_start(c))

NewCall ==
    [threw |-> FALSE, caught |-> FALSE, launched |-> 0, phases |-> {},
     saved |-> 0, removed |-> 0, files_at_call |-> recovered_files_,
     carved |-> {}, ncarves |-> 0]

InitScanner ==
    /\ is_initialized_ = FALSE
    /\ device_size_ = 0
    /\ fd_pos = 0
    /\ access_mutex_ = Unlocked
    /\ rd = [r \in 1..MaxReaders |-> [pc |-> "idle", offset |-> 0, size |-> 0,
                                      data |-> <<>>, reads |-> 0]]

InitEngine ==
    /\ config_ \in Configs
    /\ image \in Images
    \* read only when config_.num_threads = 0
    /\ hardware_concurrency \in IF config_.num_threads = 0 THEN HardwareThreads ELSE {0}
    /\ InitScanner
    /\ is_running_ = FALSE
    /\ should_stop_ = FALSE
    /\ current_progress_ = Pct(0)
    /\ recovered_files_ = <<>>
    /\ results_mutex_ = Unlocked
    /\ output_files = {}
    /\ pc = "idle"
    /\ run_status = "SUCCESS"
    /\ status = "NONE"
    /\ runs = 0
    /\ phase_files = <<>>
    /\ i = 0
    /\ futures = <<>>
    /\ recovered = <<>>
    /\ save_i = 1
    /\ task = [c \in 0..(Len(image.bytes) - 1) |-> NoTask]
    /\ completed_chunks = 0
    /\ spc = "idle"
    /\ stops = 0
    /\ progress_log = <<>>
    /\ list_writes = {}
    /\ stop_req = FALSE
    /\ hist = [threw |-> FALSE, caught |-> FALSE, launched |-> 0, phases |-> {},
               saved |-> 0, removed |-> 0, files_at_call |-> <<>>,
               carved |-> {}, ncarves |-> 0]
    /\ run_results = <<>>

Init == InitEngine /\ call = NoCall

\* an engine that is constructed and left alone: the state in which the
\* specifications of single operations run
IdleEngine ==
    /\ InitEngine
    /\ config_ = [device_path |-> "disk.img", output_directory |-> "out",
                  use_metadata_recovery |-> TRUE, use_signature_recovery |-> TRUE,
                  num_threads |-> 1, chunk_size |-> 1]
    /\ image = [bytes |-> <<>>, fs |-> "UNKNOWN", dir |-> <<>>]

onlyCall ==
    UNCHANGED <<config_, image, hardware_concurrency, scanVars, engineVars, callerVars,
                taskVars, stopVars, histVars>>

\* updateProgress(progress, message), called by thread who
updateProgress(progress, who) ==
    /\ current_progress_' = progress
    /\ progress_log' = Append(progress_log, [value |-> progress, by |-> who])

(***************************************************************************)
(* startRecovery(), executed by the caller.                                *)
(***************************************************************************)
inputsUnchanged == UNCHANGED <<config_, image, hardware_concurrency, call>>

\* the call returns st
Return(st) ==
    /\ status' = st
    /\ runs' = runs + 1
    /\ pc' = "idle"

\* lines 34-37: the entry check
Call ==
    /\ pc = "idle"
    /\ runs < MaxRuns
    /\ IF is_running_
       THEN /\ Return("FAILED")
            /\ UNCHANGED <<progress_log, stop_req, hist, run_status>>
       ELSE /\ pc' = "set_running"
            /\ run_status' = "SUCCESS"
            /\ progress_log' = <<>>
            /\ stop_req' = FALSE
            /\ hist' = NewCall
            /\ UNCHANGED <<status, runs>>
    /\ inputsUnchanged
    /\ UNCHANGED <<scanVars, engineVars, taskVars, stopVars, list_writes, run_results,
                   phase_files, i, futures, recovered, save_i>>

\* line 40
SetRunning ==
    /\ pc = "set_running"
    /\ is_running_' = TRUE
    /\ pc' = "reset"
    /\ inputsUnchanged
    /\ UNCHANGED <<scanVars, should_stop_, current_progress_, recovered_files_,
                   results_mutex_, output_files, run_status, status, runs, phase_files,
                   i, futures, recovered, save_i, taskVars, stopVars, histVars>>

\* lines 41-42
ResetFlags ==
    /\ pc = "reset"
    /\ should_stop_' = FALSE
    /\ current_progress_' = Pct(0)
    /\ pc' = "init"
    /\ inputsUnchanged
    /\ UNCHANGED <<scanVars, is_running_, recovered_files_, results_mutex_, output_files,
                   run_status, status, runs, phase_files, i, futures, recovered, save_i,
                   taskVars, stopVars, histVars>>

\* the failure path of initialize() leaving is_running_ set
RunningAfterInitFailure_Kept == is_running_

\* line 47: is_running_ = false
RunningAfterInitFailure == FALSE

\* line 48: what a failed initialize() makes startRecovery() return
InitFailureStatus == "DEVICE_NOT_FOUND"

\* lines 45-49: disk_scanner_->initialize(), under access_mutex_
InitializeScanner ==
    /\ pc = "init"
    /\ access_mutex_ = Unlocked
    /\ IF InitializeSucceeds
       THEN /\ is_initialized_' = TRUE
            /\ device_size_' = getDeviceSizeInternal
            /\ pc' = "mkdir"
            /\ UNCHANGED <<is_running_, status, runs>>
       ELSE /\ is_running_' = RunningAfterInitFailure
            /\ Return(InitFailureStatus)
            /\ UNCHANGED <<is_initialized_, device_size_>>
    /\ inputsUnchanged
    /\ UNCHANGED <<fd_pos, access_mutex_, rd, should_stop_, current_progress_,
                   recovered_files_, results_mutex_, output_files, run_status,
                   phase_files, i, futures, recovered, save_i, taskVars, stopVars,
                   histVars>>

\* the generic status returned instead
MkdirFailureStatus_Failed == "FAILED"

\* line 57: what a failed create_directories() makes startRecovery() return
MkdirFailureStatus == "INSUFFICIENT_SPACE"

\* lines 52-60: create the output directory, report 5%
CreateOutputDirectory ==
    /\ pc = "mkdir"
    /\ IF CreateDirectoriesThrows(config_.output_directory)
       THEN /\ is_running_' = FALSE
            /\ Return(MkdirFailureStatus)
            /\ UNCHANGED <<current_progress_, progress_log>>
       ELSE /\ updateProgress(Pct(5), Caller)
            /\ pc' = "phase1"
            /\ UNCHANGED <<is_running_, status, runs>>
    /\ inputsUnchanged
    /\ UNCHANGED <<scanVars, should_stop_, recovered_files_, results_mutex_, output_files,
                   run_status, phase_files, i, futures, recovered, save_i, taskVars,
                   stopVars, list_writes, stop_req, hist, run_results>>

\* lines 66-67: the gate of the metadata phase
Phase1 ==
    /\ pc = "phase1"
    /\ IF config_.use_metadata_recovery
       THEN /\ updateProgress(Pct(10), Caller)
            /\ hist' = [hist EXCEPT !.phases = @ \cup {"metadata"}]
            /\ pc' = "meta"
       ELSE /\ pc' = "phase2"
            /\ UNCHANGED <<current_progress_, progress_log, hist>>
    /\ inputsUnchanged
    /\ UNCHANGED <<scanVars, is_running_, should_stop_, recovered_files_, results_mutex_,
                   output_files, run_status, status, runs, phase_files, i, futures,
                   recovered, save_i, taskVars, stopVars, list_writes, stop_req,
                   run_results>>

\* line 68: performMetadataRecovery(); an allocation in it may throw
Metadata ==
    /\ pc = "meta"
    /\ access_mutex_ = Unlocked
    /\ \/ /\ phase_files' = performMetadataRecovery
          /\ pc' = "meta_lock"
          /\ UNCHANGED hist
       \/ /\ hist' = [hist EXCEPT !.threw = TRUE]
          /\ pc' = "catch"
          /\ UNCHANGED phase_files
    /\ inputsUnchanged
    /\ UNCHANGED <<scanVars, engineVars, run_status, status, runs, i, futures, recovered,
                   save_i, taskVars, stopVars, progress_log, list_writes, stop_req,
                   run_results>>

\* the lock_guard forgotten
LockResults_NoLock ==
    /\ pc \in {"meta_lock", "sig_lock"}
    /\ pc' = IF pc = "meta_lock" THEN "meta_insert" ELSE "sig_insert"
    /\ inputsUnchanged
    /\ UNCHANGED <<scanVars, engineVars, run_status, status, runs, phase_files,
                   i, futures, recovered, save_i, taskVars, stopVars, histVars>>

\* lines 70 and 82: std::lock_guard lock(results_mutex_)
LockResults ==
    /\ pc \in {"meta_lock", "sig_lock"}
    /\ results_mutex_ = Unlocked
    /\ results_mutex_' = HeldBy(Caller)
    /\ pc' = IF pc = "meta_lock" THEN "meta_insert" ELSE "sig_insert"
    /\ inputsUnchanged
    /\ UNCHANGED <<scanVars, is_running_, should_stop_, current_progress_,
                   recovered_files_, output_files, run_status, status, runs, phase_files,
                   i, futures, recovered, save_i, taskVars, stopVars, histVars>>

\* a write of recovered_files_ by thread who, as the history records it
Write(who, op) == [by |-> who, op |-> op, locked |-> results_mutex_ = HeldBy(who)]

\* lines 71-72 and 83-84: recovered_files_.insert(end, ...)
InsertResults ==
    /\ pc \in {"meta_insert", "sig_insert"}
    /\ recovered_files_' = recovered_files_ \o phase_files
    /\ list_writes' = list_writes \cup {Write(Caller, "merge")}
    /\ pc' = IF pc = "meta_insert" THEN "meta_done" ELSE "sig_done"
    /\ inputsUnchanged
    /\ UNCHANGED <<scanVars, is_running_, should_stop_, current_progress_, results_mutex_,
                   output_files, run_status, status, runs, phase_files, i, futures,
                   recovered, save_i, taskVars, stopVars, progress_log, stop_req, hist,
                   run_results>>

\* lines 74-75 and 86-87: report the end of the phase; the lock_guard goes out
\* of scope
PhaseDone ==
    /\ pc \in {"meta_done", "sig_done"}
    /\ updateProgress(IF pc = "meta_done" THEN Pct(30) ELSE Pct(80), Caller)
    /\ results_mutex_' = Unlocked
    /\ phase_files' = <<>>
    /\ pc' = IF pc = "meta_done" THEN "phase2" ELSE "phase3"
    /\ inputsUnchanged
    /\ UNCHANGED <<scanVars, is_running_, should_stop_, recovered_files_, output_files,
                   run_status, status, runs, i, futures, recovered, save_i, taskVars,
                   stopVars, list_writes, stop_req, hist, run_results>>

\* lines 78-79 and 230-244: the gate of the signature phase, then the locals of
\* performSignatureRecovery()
Phase2 ==
    /\ pc = "phase2"
    /\ IF config_.use_signature_recovery /\ ~should_stop_
       THEN /\ updateProgress(Pct(35), Caller)
            /\ hist' = [hist EXCEPT !.phases = @ \cup {"signature"}]
            /\ i' = 0
            /\ futures' = <<>>
            /\ recovered' = <<>>
            /\ completed_chunks' = 0
            /\ task' = [c \in DOMAIN task |-> NoTask]
            /\ pc' = "sig_loop"
       ELSE /\ pc' = "phase3"
            /\ UNCHANGED <<current_progress_, progress_log, hist, i, futures, recovered,
                           taskVars>>
    /\ inputsUnchanged
    /\ UNCHANGED <<scanVars, is_running_, should_stop_, recovered_files_, results_mutex_,
                   output_files, run_status, status, runs, phase_files, save_i, stopVars,
                   list_writes, stop_req, run_results>>

\* line 246: the loop condition
SigLoop ==
    /\ pc = "sig_loop"
    /\ pc' = IF i < num_chunks /\ ~should_stop_ THEN "sig_launch" ELSE "sig_drain"
    /\ inputsUnchanged
    /\ UNCHANGED <<scanVars, engineVars, run_status, status, runs, phase_files, i, futures,
                   recovered, save_i, taskVars, stopVars, histVars>>

\* lines 247-277: std::async starts the task of chunk i; then the test of the
\* number of futures
SigLaunch ==
    /\ pc = "sig_launch"
    /\ task' = [task EXCEPT ![i] = [NoTask EXCEPT !.st = "read"]]
    /\ futures' = Append(futures, i)
    /\ hist' = [hist EXCEPT !.launched = @ + 1]
    /\ IF PoolFull(Len(futures'))
       THEN pc' = "sig_get" /\ UNCHANGED i
       ELSE pc' = "sig_loop" /\ i' = i + 1
    /\ inputsUnchanged
    /\ UNCHANGED <<scanVars, engineVars, run_status, status, runs, phase_files, recovered,
                   save_i, completed_chunks, stopVars, progress_log, list_writes, stop_req,
                   run_results>>

\* the exception of a task swallowed
Rethrows_Never(c) == FALSE

\* future::get() of the task of chunk c rethrows what the task threw
Rethrows(c) == task[c].st = "threw"

\* lines 279-284 and 288-291: future::get() on the oldest future, which blocks
\* until its task has finished
SigGet ==
    /\ pc \in {"sig_get", "sig_drain"}
    /\ futures # <<>>
    /\ task[Head(futures)].st \in Finished
    /\ futures' = Tail(futures)
    /\ IF Rethrows(Head(futures))
       THEN /\ pc' = "sig_unwind"
            /\ UNCHANGED <<recovered, task, i>>
       ELSE /\ recovered' = recovered \o task[Head(futures)].results
            /\ task' = [task EXCEPT ![Head(futures)] = [NoTask EXCEPT !.st = "collected"]]
            /\ IF pc = "sig_get"
               THEN pc' = "sig_loop" /\ i' = i + 1
               ELSE pc' = "sig_drain" /\ UNCHANGED i
    /\ inputsUnchanged
    /\ UNCHANGED <<scanVars, engineVars, run_status, status, runs, phase_files, save_i,
                   completed_chunks, stopVars, histVars>>

\* lines 293-294: every future was collected; return recovered
SigReturn ==
    /\ pc = "sig_drain"
    /\ futures = <<>>
    /\ phase_files' = recovered
    /\ recovered' = <<>>
    /\ pc' = "sig_lock"
    /\ inputsUnchanged
    /\ UNCHANGED <<scanVars, engineVars, run_status, status, runs, i, futures, save_i,
                   taskVars, stopVars, histVars>>

\* an exception leaves performSignatureRecovery(): the destructor of every
\* future left in the vector blocks until its task has finished
SigUnwind ==
    /\ pc = "sig_unwind"
    /\ \A k \in DOMAIN futures : task[futures[k]].st \in Finished
    /\ futures' = <<>>
    /\ recovered' = <<>>
    /\ pc' = "catch"
    /\ inputsUnchanged
    /\ UNCHANGED <<scanVars, engineVars, run_status, status, runs, phase_files, i, save_i,
                   taskVars, stopVars, histVars>>

\* lines 110-113: catch (const std::exception&)
Catch ==
    /\ pc = "catch"
    /\ run_status' = "FAILED"
    /\ hist' = [hist EXCEPT !.caught = TRUE]
    /\ pc' = "finish"
    /\ inputsUnchanged
    /\ UNCHANGED <<scanVars, engineVars, status, runs, phase_files, i, futures, recovered,
                   save_i, taskVars, stopVars, progress_log, list_writes, stop_req,
                   run_results>>

\* lines 90-91: the gate of post-processing
Phase3 ==
    /\ pc = "phase3"
    /\ IF ~should_stop_
       THEN /\ updateProgress(Pct(85), Caller)
            /\ hist' = [hist EXCEPT !.phases = @ \cup {"post"}]
            /\ pc' = "dedup"
       ELSE /\ pc' = "final"
            /\ UNCHANGED <<current_progress_, progress_log, hist>>
    /\ inputsUnchanged
    /\ UNCHANGED <<scanVars, is_running_, should_stop_, recovered_files_, results_mutex_,
                   output_files, run_status, status, runs, phase_files, i, futures,
                   recovered, save_i, taskVars, stopVars, list_writes, stop_req,
                   run_results>>

\* lines 92-93: deduplicateFiles(), then report 90%
Deduplicate ==
    /\ pc = "dedup"
    /\ \E files \in deduplicateFiles(recovered_files_) :
          /\ recovered_files_' = files
          /\ hist' = [hist EXCEPT !.removed = Len(recovered_files_) - Len(files)]
    /\ list_writes' = list_writes \cup {Write(Caller, "dedup")}
    /\ updateProgress(Pct(90), Caller)
    /\ save_i' = 1
    /\ pc' = "save"
    /\ inputsUnchanged
    /\ UNCHANGED <<scanVars, is_running_, should_stop_, results_mutex_, output_files,
                   run_status, status, runs, phase_files, i, futures, recovered, taskVars,
                   stopVars, stop_req, run_results>>

\* saveRecoveredFile(file): TRUE iff the whole file could be read and was written
saveRecoveredFile(file) ==
    Len(ReadChunk(file.start_offset, file.file_size)) = file.file_size

\* lines 97-106: one iteration of the save loop, or its end
Save ==
    /\ pc = "save"
    /\ access_mutex_ = Unlocked
    /\ IF save_i > Len(recovered_files_) \/ should_stop_
       THEN /\ pc' = "final"
            /\ UNCHANGED <<output_files, save_i, hist>>
       ELSE /\ IF saveRecoveredFile(recovered_files_[save_i])
               THEN /\ output_files' = output_files \cup {recovered_files_[save_i].filename}
                    /\ hist' = [hist EXCEPT !.saved = @ + 1]
               ELSE UNCHANGED <<output_files, hist>>
            /\ save_i' = save_i + 1
            /\ pc' = "save"
    /\ inputsUnchanged
    /\ UNCHANGED <<scanVars, is_running_, should_stop_, current_progress_,
                   recovered_files_, results_mutex_, run_status, status, runs, phase_files,
                   i, futures, recovered, taskVars, stopVars, progress_log, list_writes,
                   stop_req, run_results>>

\* line 108
Final ==
    /\ pc = "final"
    /\ updateProgress(Pct(100), Caller)
    /\ pc' = "finish"
    /\ inputsUnchanged
    /\ UNCHANGED <<scanVars, is_running_, should_stop_, recovered_files_, results_mutex_,
                   output_files, run_status, status, runs, phase_files, i, futures,
                   recovered, save_i, taskVars, stopVars, list_writes, stop_req, hist,
                   run_results>>

\* the call ran every enabled phase to its end: no exception, no stop
Undisturbed == ~hist.caught /\ ~stop_req /\ ~should_stop_ /\ "post" \in hist.phases

\* lines 115-116
Finish ==
    /\ pc = "finish"
    /\ is_running_' = FALSE
    /\ Return(run_status)
    /\ run_results' = IF Undisturbed THEN Append(run_results, Range(recovered_files_))
                       ELSE run_results
    /\ inputsUnchanged
    /\ UNCHANGED <<scanVars, should_stop_, current_progress_, recovered_files_,
                   results_mutex_, output_files, run_status, phase_files, i, futures,
                   recovered, save_i, taskVars, stopVars, progress_log, list_writes,
                   stop_req, hist>>

(***************************************************************************)
(* The task of one chunk: the lambda of performSignatureRecovery().        *)
(***************************************************************************)
Worker == "task"

\* lines 252-256: allocate the chunk buffer (which may throw) and read the chunk
TaskRead(c) ==
    /\ task[c].st = "read"
    /\ access_mutex_ = Unlocked
    /\ \/ /\ LET data == ReadChunk(chunk_start(c), current_chunk_size(c))
             IN  task' = [task EXCEPT ![c].data = data,
                                      ![c].st = IF Len(data) > 0 THEN "carve" ELSE "count"]
          /\ UNCHANGED hist
       \/ /\ task' = [task EXCEPT ![c].st = "threw"]
          /\ hist' = [hist EXCEPT !.threw = TRUE]
    /\ inputsUnchanged
    /\ UNCHANGED <<scanVars, engineVars, callerVars, completed_chunks, stopVars,
                   progress_log, list_writes, stop_req, run_results>>

\* one call carver->carveFiles(data, bytes_read, base_offset), as the history
\* records it
CarveCall(carver, data, base_offset) ==
    [carver |-> carver, base_offset |-> base_offset, data |-> data]

\* lines 260-265: one iteration of the loop over the carvers
TaskCarve(c) ==
    /\ task[c].st = "carve"
    /\ IF should_stop_
       THEN /\ task' = [task EXCEPT ![c].st = "count", ![c].data = <<>>]
            /\ UNCHANGED hist
       ELSE LET files == carveFiles(file_carvers_[task[c].k], task[c].data, chunk_start(c))
                last == task[c].k = Len(file_carvers_)
            IN  /\ task' = [task EXCEPT ![c].results = @ \o files,
                                        ![c].k = IF last THEN 1 ELSE @ + 1,
                                        ![c].data = IF last THEN <<>> ELSE @,
                                        ![c].st = IF last THEN "count" ELSE "carve"]
                /\ hist' = [hist EXCEPT
                              !.carved = @ \cup {CarveCall(file_carvers_[task[c].k],
                                                           task[c].data, chunk_start(c))},
                              !.ncarves = @ + 1]
    /\ inputsUnchanged
    /\ UNCHANGED <<scanVars, engineVars, callerVars, completed_chunks, stopVars,
                   progress_log, list_writes, stop_req, run_results>>

\* line 269: completed = ++completed_chunks
TaskCount(c) ==
    /\ task[c].st = "count"
    /\ completed_chunks' = completed_chunks + 1
    /\ task' = [task EXCEPT ![c].completed = completed_chunks + 1, ![c].st = "report"]
    /\ inputsUnchanged
    /\ UNCHANGED <<scanVars, engineVars, callerVars, stopVars, histVars>>

\* lines 270-273: report the progress and return the results
TaskReport(c) ==
    /\ task[c].st = "report"
    /\ updateProgress(ChunkProgress(task[c].completed, num_chunks), Worker)
    /\ task' = [task EXCEPT ![c].st = "ready", ![c].completed = 0]
    /\ inputsUnchanged
    /\ UNCHANGED <<scanVars, is_running_, should_stop_, recovered_files_, results_mutex_,
                   output_files, callerVars, completed_chunks, stopVars, list_writes,
                   stop_req, hist, run_results>>

(***************************************************************************)
(* stopRecovery(), executed by the second client thread.                   *)
(***************************************************************************)
\* recovery_engine.h: the vector the engine never adds a thread to
worker_threads_ == {}

\* line 120
StopCall ==
    /\ spc = "idle"
    /\ stops < MaxStops
    /\ IF is_running_
       THEN spc' = "flag" /\ UNCHANGED stops
       ELSE stops' = stops + 1 /\ UNCHANGED spc
    /\ inputsUnchanged
    /\ UNCHANGED <<scanVars, engineVars, callerVars, taskVars, histVars>>

\* line 122
StopFlag ==
    /\ spc = "flag"
    /\ should_stop_' = TRUE
    /\ stop_req' = (stop_req \/ pc # "idle")
    /\ spc' = "join"
    /\ inputsUnchanged
    /\ UNCHANGED <<scanVars, is_running_, current_progress_, recovered_files_,
                   results_mutex_, output_files, callerVars, taskVars, stops, progress_log,
                   list_writes, hist, run_results>>

\* lines 125-133: join the threads of worker_threads_, then is_running_ = false
StopJoin ==
    /\ spc = "join"
    /\ \A c \in worker_threads_ : task[c].st \notin Executing
    /\ is_running_' = FALSE
    /\ stops' = stops + 1
    /\ spc' = "idle"
    /\ inputsUnchanged
    /\ UNCHANGED <<scanVars, should_stop_, current_progress_, recovered_files_,
                   results_mutex_, output_files, callerVars, taskVars, histVars>>

(***************************************************************************)
(* The engine.                                                             *)
(***************************************************************************)
CallerNext ==
    \/ Call \/ SetRunning \/ ResetFlags \/ InitializeScanner \/ CreateOutputDirectory
    \/ Phase1 \/ Metadata \/ LockResults \/ InsertResults \/ PhaseDone
    \/ Phase2 \/ SigLoop \/ SigLaunch \/ SigGet \/ SigReturn \/ SigUnwind \/ Catch
    \/ Phase3 \/ Deduplicate \/ Save \/ Final \/ Finish

TaskNext ==
    \/ \E c \in DOMAIN task : TaskRead(c)
    \/ \E c \in DOMAIN task : TaskCarve(c)
    \/ \E c \in DOMAIN task : TaskCount(c)
    \/ \E c \in DOMAIN task : TaskReport(c)

StopNext == StopCall \/ StopFlag \/ StopJoin

Next == CallerNext \/ TaskNext \/ StopNext

Spec == Init /\ [][Next]_vars

(***************************************************************************)
(* Properties of the engine.                                               *)
(***************************************************************************)
\* the last call of startRecovery() has returned
Returned == pc = "idle" /\ runs > 0

isRunning == is_running_

TaskExecuting == \E c \in DOMAIN task : task[c].st \in Executing

\* C1: isRunning() is false only when no chunk task launched by the run is
\* still executing.
C1_NotRunningOnlyAfterWorkersDrain == ~isRunning => ~TaskExecuting

\* C2: once stopRecovery() has raised the stop flag during a run, that run
\* launches no further chunk task, enters no later phase and saves no file.
C2_NothingStartsAfterStop ==
    [][(stop_req /\ pc # "idle") =>
          /\ hist'.launched = hist.launched
          /\ hist'.phases = hist.phases
          /\ hist'.saved = hist.saved]_vars

\* a progress value within [0.0, 100.0]
InRange(p) == Leq(Pct(0), p) /\ Leq(p, Pct(100))

\* C3 (as worded in the specification): the values delivered to the progress
\* callback within one call are non-decreasing and lie in [0, 100].
C3_ProgressNonDecreasing ==
    /\ \A k \in DOMAIN progress_log : InRange(progress_log[k].value)
    /\ \A k \in 1..(Len(progress_log) - 1) :
          Leq(progress_log[k].value, progress_log[k + 1].value)

\* C3 (as the code has it): every delivered value lies in [0, 100], and of two delivered
\* values the later is not the smaller unless both come from chunk tasks.
C3_ProgressOrderedAcrossPhases ==
    /\ \A k \in DOMAIN progress_log : InRange(progress_log[k].value)
    /\ \A k, l \in DOMAIN progress_log :
          (k < l /\ (progress_log[k].by = Caller \/ progress_log[l].by = Caller))
             => Leq(progress_log[k].value, progress_log[l].value)

\* a finished call in which two chunk tasks reported out of order
C3_Witness ==
    /\ Returned /\ status = "SUCCESS"
    /\ \E k \in 1..(Len(progress_log) - 1) :
          ~Leq(progress_log[k].value, progress_log[k + 1].value)

NoTwoSame(s) == \A k, l \in DOMAIN s : k # l => ~SameFile(s[k], s[l])

\* C4: after deduplicateFiles() has run, recovered_files_ is sorted by
\* (start_offset, file_size) and holds no two records with the same pair.
C4_DedupSortedUnique ==
    ("post" \in hist.phases /\ pc # "dedup") =>
        IsSortedBy(recovered_files_) /\ NoTwoSame(recovered_files_)

\* deduplication removed a record and left at least two
C4_Witness ==
    /\ "post" \in hist.phases /\ pc = "save"
    /\ hist.removed > 0
    /\ Len(recovered_files_) >= 2

\* C5 (as worded in the specification): every modification of recovered_files_ is made by the
\* thread in startRecovery() while it holds results_mutex_.
C5_EveryWriteByCallerUnderLock ==
    \A w \in list_writes : w.by = Caller /\ w.locked

\* C5 (as the code has it): no chunk task writes recovered_files_; every append of a
\* phase's results is made by the thread in startRecovery() while it holds
\* results_mutex_ (deduplicateFiles() rewrites the list without the lock).
C5_MergesByCallerUnderLock ==
    \A w \in list_writes : w.by = Caller /\ (w.op = "merge" => w.locked)

\* the results of a signature phase with at least one task were merged, and
\* the list was deduplicated
C5_Witness ==
    /\ hist.launched > 0
    /\ \E w \in list_writes : w.op = "merge" /\ w.locked
    /\ \E w \in list_writes : w.op = "dedup"

\* C7: two undisturbed runs of the pipeline on the same image with the same
\* configuration leave the same set of records.
C7_SameRecordsTwice ==
    Len(run_results) >= 2 => run_results[1] = run_results[2]

\* C8 (as worded in the specification): with an empty device path or an empty output directory
\* startRecovery() returns FAILED.
C8_EmptyPathsFail ==
    (Returned /\ (config_.device_path = "" \/ config_.output_directory = ""))
        => status = "FAILED"

\* C8 (as the code has it): with an empty device path startRecovery() returns
\* DEVICE_NOT_FOUND; with an empty output directory and a device that opens it
\* returns INSUFFICIENT_SPACE; in both cases no phase is entered.
C8_EmptyPathsStatus ==
    /\ (Returned /\ config_.device_path = "")
          => status = "DEVICE_NOT_FOUND" /\ hist.phases = {}
    /\ (Returned /\ config_.output_directory = "" /\ is_initialized_)
          => status = "INSUFFICIENT_SPACE" /\ hist.phases = {}

\* a call with an empty output directory on a device that opens has returned
C8_Witness ==
    /\ Returned
    /\ config_.output_directory = ""
    /\ config_.device_path # ""
    /\ status = "INSUFFICIENT_SPACE"

\* C9: if the device cannot be opened, startRecovery() returns
\* DEVICE_NOT_FOUND, isRunning() is false after the call, no progress callback
\* was invoked and recovered_files_ is as it was before the call.
C9_DeviceNotFoundNoEffect ==
    (Returned /\ ~is_initialized_) =>
        /\ status = "DEVICE_NOT_FOUND"
        /\ ~isRunning
        /\ progress_log = <<>>
        /\ recovered_files_ = hist.files_at_call

\* a second call on a device that does not exist has returned, with a
\* stopRecovery() that saw the call running
C9_Witness ==
    /\ Returned /\ runs = 2
    /\ config_.device_path = "missing.img"
    /\ stops = 1 /\ should_stop_

Readers == 1..MaxReaders

engineUnchanged ==
    UNCHANGED <<config_, image, hardware_concurrency, engineVars, callerVars, taskVars,
                stopVars, histVars, call>>

ScanConfigs ==
    {c \in Configs : /\ c.device_path = "disk.img" /\ c.output_directory = "out"
                     /\ c.use_metadata_recovery /\ c.use_signature_recovery
                     /\ c.num_threads = 1 /\ c.chunk_size = 1}

InitScan == Init /\ config_ \in ScanConfigs

\* lines 27-62: initialize(), all of it under access_mutex_
ScannerInitialize ==
    /\ ~is_initialized_
    /\ access_mutex_ = Unlocked
    /\ InitializeSucceeds
    /\ is_initialized_' = TRUE
    /\ device_size_' = getDeviceSizeInternal
    /\ UNCHANGED <<fd_pos, access_mutex_, rd>>
    /\ engineUnchanged

\* lines 64-78: the checks made before the lock, and the clamp of size
ReadBegin(r) ==
    /\ is_initialized_
    /\ rd[r].pc = "idle"
    /\ rd[r].reads < MaxReads
    /\ \E offset \in 0..device_size_, size \in 1..MaxChunkSize :
          rd' = [rd EXCEPT ![r] =
                   IF ReadChunkRejects(offset)
                   THEN [@ EXCEPT !.pc = "done", !.offset = offset, !.size = size,
                                  !.data = <<>>]
                   ELSE [@ EXCEPT !.pc = "lock", !.offset = offset,
                                  !.size = ClampedSize(offset, size), !.data = <<>>]]
    /\ UNCHANGED <<is_initialized_, device_size_, fd_pos, access_mutex_>>
    /\ engineUnchanged

\* the lock_guard of readChunk forgotten
CanLock_Always == TRUE

\* access_mutex_ can be taken
CanLock == access_mutex_ = Unlocked

\* line 80: std::lock_guard lock(access_mutex_)
ReadLock(r) ==
    /\ rd[r].pc = "lock"
    /\ CanLock
    /\ access_mutex_' = HeldBy(r)
    /\ rd' = [rd EXCEPT ![r].pc = "seek"]
    /\ UNCHANGED <<is_initialized_, device_size_, fd_pos>>
    /\ engineUnchanged

\* line 83: lseek(device_fd_, offset, SEEK_SET)
ReadSeek(r) ==
    /\ rd[r].pc = "seek"
    /\ fd_pos' = rd[r].offset
    /\ rd' = [rd EXCEPT ![r].pc = "read"]
    /\ UNCHANGED <<is_initialized_, device_size_, access_mutex_>>
    /\ engineUnchanged

\* lines 89-96: read(device_fd_, buffer, size) at the position of the
\* descriptor; return, which releases the lock
ReadRead(r) ==
    /\ rd[r].pc = "read"
    /\ LET data == ReadAt(fd_pos, rd[r].size)
       IN  /\ rd' = [rd EXCEPT ![r].pc = "done", ![r].data = data]
           /\ fd_pos' = fd_pos + Len(data)
    /\ access_mutex_' = IF access_mutex_ = HeldBy(r) THEN Unlocked ELSE access_mutex_
    /\ UNCHANGED <<is_initialized_, device_size_>>
    /\ engineUnchanged

\* the caller has looked at the result
ReadReturn(r) ==
    /\ rd[r].pc = "done"
    /\ rd' = [rd EXCEPT ![r] = [pc |-> "idle", offset |-> 0, size |-> 0, data |-> <<>>,
                                reads |-> @.reads + 1]]
    /\ UNCHANGED <<is_initialized_, device_size_, fd_pos, access_mutex_>>
    /\ engineUnchanged

NextScan ==
    \/ ScannerInitialize
    \/ \E r \in Readers : ReadBegin(r)
    \/ \E r \in Readers : ReadLock(r)
    \/ \E r \in Readers : ReadSeek(r)
    \/ \E r \in Readers : ReadRead(r)
    \/ \E r \in Readers : ReadReturn(r)

SpecScan == InitScan /\ [][NextScan]_vars

\* the device bytes [offset, offset + size), cut at the end of the device
DeviceBytes(offset, size) ==
    IF offset >= Len(image.bytes) THEN <<>>
    ELSE [j \in 1..Min(size, Len(image.bytes) - offset) |-> image.bytes[offset + j]]

\* C6: concurrent readChunk calls on an initialized scanner each return the
\* device bytes at their own offset; the seek and the read of one call are
\* never interleaved with those of another.
C6_ConcurrentReadsReturnOwnBytes ==
    /\ \A r \in Readers :
          rd[r].pc = "done" => rd[r].data = DeviceBytes(rd[r].offset, rd[r].size)
    /\ \A r1, r2 \in Readers :
          (rd[r1].pc \in {"seek", "read"} /\ rd[r2].pc \in {"seek", "read"}) => r1 = r2

\* one call has returned its bytes while another, for a different offset, is
\* between its seek and its read
C6_Witness ==
    \E r1, r2 \in Readers :
        /\ rd[r1].pc = "done" /\ Len(rd[r1].data) > 0
        /\ rd[r2].pc = "read" /\ rd[r2].offset # rd[r1].offset

(***************************************************************************)
(* Properties of the signature phase.                                      *)
(***************************************************************************)
\* the least q with q * d >= n
Ceil(n, d) == CHOOSE q \in 0..n : q * d >= n /\ (q = 0 \/ (q - 1) * d < n)

\* performSignatureRecovery() has returned normally and no stop was asked for
SignatureDone ==
    /\ pc = "sig_lock"
    /\ "signature" \in hist.phases
    /\ ~stop_req /\ ~should_stop_

\* C11: a signature phase that is not stopped processes exactly
\* ceil(device_size / chunk_size) chunks; chunk c covers the bytes
\* [c * chunk_size, min((c + 1) * chunk_size, device_size)), so every byte of
\* the device lies in exactly one chunk, and every chunk is handed exactly once
\* to every registered carver with base_offset equal to the start of the chunk.
C11_ChunksCoverDeviceOnce ==
    SignatureDone =>
        LET n == Ceil(device_size_, config_.chunk_size)
            lo(c) == c * config_.chunk_size
            hi(c) == Min((c + 1) * config_.chunk_size, device_size_)
        IN  /\ hist.launched = n
            /\ hist.carved =
                  { CarveCall(file_carvers_[k], DeviceBytes(lo(c), hi(c) - lo(c)), lo(c)) :
                      c \in 0..(n - 1), k \in DOMAIN file_carvers_ }
            /\ hist.ncarves = n * Len(file_carvers_)
            /\ \A b \in 0..(device_size_ - 1) :
                  Cardinality({c \in 0..(n - 1) : lo(c) <= b /\ b < hi(c)}) = 1

\* a phase over a device whose last chunk is shorter than chunk_size has ended
C11_Witness ==
    /\ SignatureDone
    /\ config_.chunk_size > 1
    /\ device_size_ % config_.chunk_size # 0
    /\ hist.ncarves > Len(file_carvers_)

\* C12 (as worded in the specification): the chunk tasks launched and not yet
\* collected are never more than the configured num_threads or, when that is
\* 0, max(1, hardware parallelism - 1).
C12_InFlightAtMostHardwareMinusOne ==
    Len(futures) <= IF config_.num_threads > 0 THEN config_.num_threads
                    ELSE IF hardware_concurrency - 1 > 1 THEN hardware_concurrency - 1
                    ELSE 1

\* C12 (as the code has it): the chunk tasks launched and not yet collected,
\* and so the tasks executing, are never more than the local num_threads: the
\* configured value or, when that is 0, max(1, h - 1), where h is
\* hardware_concurrency(), taken as 4 when it returns 0.
C12_InFlightAtMostNumThreads ==
    /\ Len(futures) <= num_threads
    /\ Cardinality({c \in DOMAIN task : task[c].st \in Executing}) <= num_threads

\* with num_threads configured as 0 the pool is full, more chunks are waiting
C12_Witness ==
    /\ pc = "sig_get"
    /\ config_.num_threads = 0
    /\ Len(futures) = num_threads
    /\ i + 1 < num_chunks

(***************************************************************************)
(* DiskScanner::readChunk as a single operation (specification SpecRead):  *)
(* one thread, any offset and any size of the type's range, on a scanner   *)
(* that was or was not initialized.                                        *)
(***************************************************************************)
\* what readChunk(offset, size) may return: the bytes read, or nothing when
\* lseek() or read() fails (lines 83-93)
ReadChunkOutcomes(offset, size) == {ReadChunk(offset, size), <<>>}

ReadChunkCall ==
    /\ access_mutex_ = Unlocked
    /\ \E offset \in 0..(SizeModulus - 1), size \in 0..(SizeModulus - 1) :
          \E data \in ReadChunkOutcomes(offset, size) :
             /\ call' = [op |-> "readChunk", offset |-> offset, size |-> size,
                         data |-> data]
             /\ fd_pos' = IF ReadChunkRejects(offset) THEN fd_pos ELSE offset + Len(data)
    /\ UNCHANGED <<config_, image, hardware_concurrency, is_initialized_, device_size_,
                   access_mutex_, rd, engineVars, callerVars, taskVars, stopVars, histVars>>

NextRead == ScannerInitialize \/ ReadChunkCall

SpecRead == InitScan /\ [][NextRead]_vars

\* C13: readChunk with an offset at or past the device size returns 0, and
\* every call returns at most min(requested size, device_size - offset) bytes.
C13_ReadChunkWithinDevice ==
    call.op = "readChunk" =>
        /\ call.offset >= device_size_ => Len(call.data) = 0
        /\ call.offset < device_size_ =>
              Len(call.data) <= Min(call.size, device_size_ - call.offset)

\* a call whose offset + size wraps around has returned bytes
C13_Witness ==
    /\ call.op = "readChunk"
    /\ call.offset + call.size >= SizeModulus
    /\ Len(call.data) > 0

(***************************************************************************)
(* Fat32Parser::recoverDeletedFiles (specification SpecFat32).  A volume   *)
(* has one reserved sector, one FAT of one sector and the data clusters    *)
(* 2..LastCluster of sectors_per_cluster sectors each.  fat[c] is the FAT  *)
(* entry of cluster c; dirs[c] holds the 32-byte entries at the start of   *)
(* cluster c, the rest of the cluster being zero.                          *)
(***************************************************************************)
\* fat32_parser.h
EOC_MARK == 268435448
BAD_CLUSTER == 268435447
bytes_per_sector == 512

LastCluster == 3

\* the cap on files.size() (100000 in the code, line 231)
FilesCap == 3

Score(n, d) == [num |-> n, den |-> d]

\* get_fat_offset, get_data_offset, get_cluster_size for the boot sector of
\* the volumes above
get_fat_offset == 1 * bytes_per_sector
get_data_offset == get_fat_offset + 1 * 1 * bytes_per_sector
get_cluster_size(boot) == boot.sectors_per_cluster * bytes_per_sector

\* the size of the buffer handed to the parser
VolumeSize(boot) == get_data_offset + (LastCluster - 1) * get_cluster_size(boot)

is_valid_cluster(cluster) == cluster >= 2 /\ cluster < BAD_CLUSTER

\* the product of a uint32_t below 2^28 and a power of two up to 128, in
\* unsigned 32-bit arithmetic: the low 32 bits
Mul32(a, b) == IF b >= 16 THEN (a % (2 ^ 28 \div (b \div 16))) * b ELSE a * b

\* (cluster - 2) * boot->sectors_per_cluster is a uint32_t product
cluster_to_sector(cluster, boot) ==
    get_data_offset \div bytes_per_sector + Mul32(cluster - 2, boot.sectors_per_cluster)

ATTR_VOLUME_ID == 8
ATTR_DIRECTORY == 16
ATTR_ARCHIVE == 32
ATTR_LONG_NAME == 15

\* attributes & bit, for a bit that is a power of two
HasAttribute(attributes, bit) == (attributes \div bit) % 2 = 1

\* the attribute byte of the entries below
AttributesOf(kind) ==
    CASE kind = "volume" -> ATTR_VOLUME_ID
      [] kind = "dir" -> ATTR_DIRECTORY
      [] kind = "lfn" -> ATTR_LONG_NAME
      [] OTHER -> ATTR_ARCHIVE

\* a 32-byte directory entry; for a long-filename entry `name` holds the
\* characters of name1, name2 and name3
DirEntry(kind, name, first_cluster, size) ==
    [kind |-> kind, name |-> name, first_cluster |-> first_cluster, file_size |-> size,
     attributes |-> AttributesOf(kind)]

\* what the start of a directory cluster may hold; the name of an entry marked
\* deleted is given without its first byte, which is 0xE5
DirContents ==
    { <<>>,
      << DirEntry("file", "a.txt", 2, 700) >>,
      << DirEntry("deleted", ".jpg", 3, 100), DirEntry("dir", "sub", 3, 0),
         DirEntry("file", "c.bin", 0, 5) >>,
      << DirEntry("volume", "DISK", 0, 0), DirEntry("dir", "..", 2, 0),
         DirEntry("file", "d.png", 3, 512) >>,
      << DirEntry("lfn", "e.txt", 0, 0), DirEntry("lfn", "long_nam", 0, 0),
         DirEntry("file", "long_n~1.txt", 3, 300) >> }

\* a cluster number whose sector offset wraps to that of cluster 2 when a
\* cluster has 128 sectors
WrappingCluster == 2 ^ 25 + 2

FatValues == {0, 2, 3, LastCluster + 1, WrappingCluster, EOC_MARK}

Volumes ==
    [fat : [2..LastCluster -> FatValues], dirs : [2..LastCluster -> DirContents],
     root_cluster : {2}, sectors_per_cluster : {1, 128}]

\* extract_long_name: the characters of the buffered entries, last entry first
RECURSIVE extract_long_name(_)
extract_long_name(lfn_entries) ==
    IF lfn_entries = <<>> THEN ""
    ELSE lfn_entries[Len(lfn_entries)].name
             \o extract_long_name(SubSeq(lfn_entries, 1, Len(lfn_entries) - 1))

\* parse_dir_entry_to_file(entry, long_name, boot, 0); entry.name is the
\* short name as extract_short_name gives it
parse_dir_entry_to_file(entry, long_name, boot) ==
    LET cluster_offset == cluster_to_sector(entry.first_cluster, boot) * bytes_per_sector
        valid == is_valid_cluster(entry.first_cluster)
    IN  [filename |-> IF long_name = "" THEN entry.name ELSE long_name,
         file_size |-> entry.file_size,
         confidence_score |-> Score(85, 1),
         start_offset |-> IF valid THEN cluster_offset ELSE 0,
         is_fragmented |-> FALSE,
         fragments |-> IF valid
                       THEN << [offset |-> cluster_offset,
                                 size |-> get_cluster_size(boot)] >>
                       ELSE <<>>]

\* parse_deleted_entries: the entries marked 0xE5 in the clusters that lie
\* whole inside the buffer, scanned in the order of the clusters
RECURSIVE DeletedIn(_, _, _)
DeletedIn(entries, k, boot) ==
    IF k > Len(entries) THEN <<>>
    ELSE LET e == entries[k]
             file == parse_dir_entry_to_file(e, "", boot)
         IN  (IF e.kind = "deleted" /\ e.file_size > 0
              THEN << [file EXCEPT !.filename = "DELETED_" \o "_" \o @,
                                   !.confidence_score = Score(60, 1)] >>
              ELSE <<>>) \o DeletedIn(entries, k + 1, boot)

RECURSIVE parse_deleted_entries(_, _)
parse_deleted_entries(volume, cluster) ==
    IF cluster > LastCluster THEN <<>>
    ELSE DeletedIn(volume.dirs[cluster], 1, volume)
             \o parse_deleted_entries(volume, cluster + 1)

\* the loop over the entries of one directory cluster (lines 160-222): the
\* files found, the clusters pushed, and lfn_entries as the loop leaves it
RECURSIVE ScanDirectory(_, _, _, _)
ScanDirectory(entries, k, lfn_entries, boot) ==
    IF k > Len(entries)
    THEN [files |-> <<>>, pushed |-> <<>>, lfn_entries |-> lfn_entries]
    ELSE LET e == entries[k]
         IN  IF e.kind = "deleted" THEN ScanDirectory(entries, k + 1, <<>>, boot)
             ELSE IF HasAttribute(e.attributes, ATTR_VOLUME_ID)
             THEN ScanDirectory(entries, k + 1, lfn_entries, boot)
             ELSE IF e.attributes = ATTR_LONG_NAME
             THEN ScanDirectory(entries, k + 1, Append(lfn_entries, e), boot)
             ELSE LET file == parse_dir_entry_to_file(e, extract_long_name(lfn_entries), boot)
                      rest == ScanDirectory(entries, k + 1, <<>>, boot)
                  IN  [files |-> (IF file.filename # "" /\ file.file_size > 0
                                  THEN <<file>> ELSE <<>>) \o rest.files,
                       pushed |-> (IF HasAttribute(e.attributes, ATTR_DIRECTORY)
                                      /\ file.filename \notin {".", ".."}
                                      /\ is_valid_cluster(e.first_cluster)
                                   THEN <<e.first_cluster>> ELSE <<>>) \o rest.pushed,
                       lfn_entries |-> rest.lfn_entries]

\* lines 151-154: cluster_offset >= size, where cluster_offset is the uint64_t
\* product sector * bytes_per_sector, which does not wrap; the comparison is
\* made here in sectors
OffsetBeyond(sector, size) == sector >= (size + bytes_per_sector - 1) \div bytes_per_sector

\* the directory entries the loop of lines 160-222 finds at the offset of a
\* cluster: those of the data cluster that lies at that offset
DirAt(volume, cluster, boot) ==
    volume.dirs[(cluster_to_sector(cluster, boot) - get_data_offset \div bytes_per_sector)
                    \div boot.sectors_per_cluster + 2]

\* fat_entry_value(fat_table, cluster) reads the four bytes that end before
\* this index of the buffer (fat_table is data + fat_offset)
fat_entry_end(cluster) == get_fat_offset + cluster * 4 + 4

\* the values fat_entry_value(fat_table, cluster) may return: the entry of
\* the FAT, or, the four bytes lying outside the buffer, any value
fat_entry_value(volume, cluster) ==
    IF fat_entry_end(cluster) <= VolumeSize(volume) THEN {volume.fat[cluster]}
    ELSE FatValues

InitFat32 ==
    /\ IdleEngine
    /\ \E v \in Volumes :
          call = [op |-> "fat32", pc |-> "deleted", volume |-> v,
                  deleted_files |-> <<>>, clusters_to_process |-> <<>>, files |-> <<>>,
                  lfn_entries |-> <<>>, fat_lookups |-> {}, result |-> <<>>]

\* recoverDeletedFiles, line 39: parse_deleted_entries; then lines 113-138
\* of parse_directory_entries, up to the loop
Fat32Begin ==
    /\ call.op = "fat32" /\ call.pc = "deleted"
    /\ call' = [call EXCEPT
                  !.deleted_files = parse_deleted_entries(call.volume, 2),
                  !.clusters_to_process =
                      IF get_data_offset >= VolumeSize(call.volume)
                         \/ get_fat_offset >= VolumeSize(call.volume)
                      THEN <<>> ELSE <<call.volume.root_cluster>>,
                  !.pc = "loop"]
    /\ onlyCall

\* lines 140-233: one iteration of the loop over clusters_to_process
Fat32Cluster ==
    /\ call.op = "fat32" /\ call.pc = "loop"
    /\ call.clusters_to_process # <<>>
    /\ LET stack == call.clusters_to_process
           cluster == stack[Len(stack)]
           popped == SubSeq(stack, 1, Len(stack) - 1)
           boot == call.volume
       IN  IF ~is_valid_cluster(cluster)
              \/ OffsetBeyond(cluster_to_sector(cluster, boot), VolumeSize(boot))
           THEN call' = [call EXCEPT !.clusters_to_process = popped]
           ELSE LET found == ScanDirectory(DirAt(call.volume, cluster, boot), 1,
                                           call.lfn_entries, boot)
                    files == call.files \o found.files
                IN  \E next_cluster \in fat_entry_value(call.volume, cluster) :
                       call' = [call EXCEPT
                                  !.files = files,
                                  !.lfn_entries = found.lfn_entries,
                                  !.fat_lookups = @ \cup {cluster},
                                  !.clusters_to_process =
                                      popped \o found.pushed \o
                                      (IF is_valid_cluster(next_cluster)
                                          /\ next_cluster < EOC_MARK
                                       THEN <<next_cluster>> ELSE <<>>),
                                  !.pc = IF Len(files) > FilesCap THEN "combine"
                                         ELSE "loop"]
    /\ onlyCall

\* line 236 and recoverDeletedFiles lines 42-48: the loop has ended; combine
Fat32Return ==
    /\ call.op = "fat32"
    /\ \/ call.pc = "combine"
       \/ call.pc = "loop" /\ call.clusters_to_process = <<>>
    /\ call' = [call EXCEPT !.result = call.deleted_files \o call.files,
                            !.pc = "done"]
    /\ onlyCall

NextFat32 == Fat32Begin \/ Fat32Cluster \/ Fat32Return

SpecFat32 == InitFat32 /\ [][NextFat32]_vars /\ WF_vars(NextFat32)

\* the records recoverDeletedFiles() has returned
Fat32Result == IF call.op = "fat32" /\ call.pc = "done" THEN Range(call.result) ELSE {}

RECURSIVE SumSizes(_)
SumSizes(fragments) ==
    IF fragments = <<>> THEN 0 ELSE Head(fragments).size + SumSizes(Tail(fragments))

\* C14: every RecoveredFile produced has confidence_score in [0.0, 1.0].
C14_ConfidenceInUnitInterval ==
    \A f \in Fat32Result :
        Leq(Score(0, 1), f.confidence_score) /\ Leq(f.confidence_score, Score(1, 1))

\* C16: the sizes of the fragments of every RecoveredFile produced sum to
\* file_size, and a file that is not fragmented carries exactly one fragment,
\* equal to (start_offset, file_size).
C16_FragmentsSumToFileSize ==
    \A f \in Fat32Result :
        /\ SumSizes(f.fragments) = f.file_size
        /\ ~f.is_fragmented =>
              f.fragments = << [offset |-> f.start_offset, size |-> f.file_size] >>

\* C19: the FAT32 directory walk terminates on every volume.
C19_Fat32WalkTerminates == <>(call.op = "fat32" /\ call.pc = "done")

\* C30: during the FAT32 directory walk every FAT entry lookup reads inside
\* the buffer handed to the parser, for any cluster number taken from the
\* image.
C30_FatLookupsInsideBuffer ==
    call.op = "fat32" =>
        \A cluster \in call.fat_lookups : fat_entry_end(cluster) <= VolumeSize(call.volume)

\* C17: every RecoveredFile in recovered_files_ lies inside the device.
C17_ResultsInsideDevice ==
    \A k \in DOMAIN recovered_files_ :
        recovered_files_[k].start_offset + recovered_files_[k].file_size <= device_size_

-----------------------------------------------------------------------------
\* The PNG carver on one buffer (carvers/png_carver.cpp)

\* PNG_SIGNATURE.size(), and the length, type and CRC fields of a chunk
PNG_SIGNATURE_SIZE == 8
ChunkOverhead == 12
TestDataLimit == 1000

\* A buffer holds one PNG signature at match_offset, followed by the chunks
\* listed (data length, and whether the type is IEND), followed by zero bytes;
\* it is cut after `size` bytes.  Chunk data never spells a signature or IEND.
PngChunks == {[length |-> n, iend |-> e] : n \in {0, 13}, e \in BOOLEAN}

PngStreams ==
    {<<>>} \cup {<<c>> : c \in PngChunks} \cup {<<c, d>> : c, d \in PngChunks}

PngSizes == {19, 20, 21, 23, 33, 41, 42, 44, 45, 60}

PngBuffers ==
    {[size |-> s, match_offset |-> m, chunks |-> cs] :
        s \in PngSizes, m \in {0, 2}, cs \in PngStreams}

\* offset in the buffer of the header of chunk k (k = Len + 1: the padding)
RECURSIVE ChunkStart(_, _)
ChunkStart(data, k) ==
    IF k = 1 THEN data.match_offset + PNG_SIGNATURE_SIZE
    ELSE ChunkStart(data, k - 1) + ChunkOverhead + data.chunks[k - 1].length

\* the chunk header found at `offset`: that of a listed chunk, or zero bytes
HeaderAt(data, offset) ==
    IF \E k \in DOMAIN data.chunks : ChunkStart(data, k) = offset
    THEN data.chunks[CHOOSE k \in DOMAIN data.chunks : ChunkStart(data, k) = offset]
    ELSE [length |-> 0, iend |-> FALSE]

\* findPngEnd, line 234: the size returned when IEND is found at `offset`
IendSize(offset, start_offset) == offset + ChunkOverhead - start_offset

InitPng ==
    /\ IdleEngine
    /\ \E d \in PngBuffers, b \in {0, 64} :
          call = [op |-> "png", pc |-> "carve", data |-> d, base_offset |-> b,
                  offset |-> 0, png_size |-> 0, found_iend |-> FALSE,
                  recovered_files |-> <<>>]

\* carveFiles lines 32-49 and findPngEnd lines 201-211, for the one match
PngBegin ==
    /\ call.op = "png" /\ call.pc = "carve"
    /\ LET size == call.data.size
           start_offset == call.data.match_offset
       IN  IF size < PNG_SIGNATURE_SIZE + 12
           THEN call' = [call EXCEPT !.pc = "done"]
           ELSE IF start_offset + PNG_SIGNATURE_SIZE + 12 >= size
           THEN call' = [call EXCEPT !.png_size = 0, !.pc = "emit"]
           ELSE call' = [call EXCEPT !.offset = start_offset + PNG_SIGNATURE_SIZE,
                                     !.pc = "walk"]
    /\ onlyCall

\* findPngEnd lines 213-253: one iteration of the loop over the chunks
PngChunk ==
    /\ call.op = "png" /\ call.pc = "walk"
    /\ call.offset + 8 < call.data.size
    /\ LET header == HeaderAt(call.data, call.offset)
       IN  IF header.iend
           THEN call' = [call EXCEPT
                           !.png_size = IendSize(call.offset, call.data.match_offset),
                           !.found_iend = TRUE,
                           !.pc = "emit"]
           ELSE call' = [call EXCEPT !.offset = @ + 8 + header.length + 4]
    /\ onlyCall

\* findPngEnd lines 256-259: the loop ended without IEND
PngNoIend ==
    /\ call.op = "png" /\ call.pc = "walk"
    /\ ~(call.offset + 8 < call.data.size)
    /\ call' = [call EXCEPT !.png_size = call.data.size - call.data.match_offset,
                            !.pc = "emit"]
    /\ onlyCall

\* carveFiles lines 51-107, for a buffer below TestDataLimit bytes
PngEmit ==
    /\ call.op = "png" /\ call.pc = "emit"
    /\ call.data.size < TestDataLimit
    /\ IF call.png_size = 0
       THEN call' = [call EXCEPT !.pc = "done"]
       ELSE call' = [call EXCEPT
                       !.recovered_files =
                           << [file_type |-> "PNG",
                               start_offset |-> call.base_offset + call.data.match_offset,
                               file_size |-> call.png_size,
                               is_fragmented |-> FALSE,
                               confidence_score |->
                                   IF call.found_iend THEN Score(9, 10) ELSE Score(5, 10)] >>,
                       !.pc = "done"]
    /\ onlyCall

NextPng == PngBegin \/ PngChunk \/ PngNoIend \/ PngEmit

SpecPng == InitPng /\ [][NextPng]_vars

\* C15: every file emitted by carveFiles(data, size, base_offset) has
\* start_offset >= base_offset and start_offset + file_size <= base_offset + size.
C15_CarvedInsideBuffer ==
    (call.op = "png" /\ call.pc = "done") =>
        \A f \in Range(call.recovered_files) :
            /\ f.start_offset >= call.base_offset
            /\ f.start_offset + f.file_size <= call.base_offset + call.data.size

-----------------------------------------------------------------------------
\* NTFS run-list parsing (filesystems/ntfs_parser.cpp, parse_data_runs)

MaxDataRuns == 6
RunClusterLimit == 10000
ClusterSafetyLimit == 50000

\* One data run as decoded from its header and fields: the run length, whether
\* an offset field is present (offset_bytes > 0), and the signed relative LCN.
DataRuns ==
    {[run_clusters |-> n, has_offset |-> h, cluster_offset_value |-> v] :
        n \in {1, RunClusterLimit, RunClusterLimit + 1}, h \in BOOLEAN, v \in {5}}
    \cup {[run_clusters |-> 1, has_offset |-> TRUE, cluster_offset_value |-> -1]}

\* `clusters` is kept as one piece per run: piece [lcn, count] stands for the
\* entries partition_offset + (lcn + i) * cluster_size, 0 <= i < count
RECURSIVE ClusterCount(_)
ClusterCount(clusters) ==
    IF clusters = <<>> THEN 0 ELSE Head(clusters).count + ClusterCount(Tail(clusters))

InitRuns ==
    /\ IdleEngine
    /\ call = [op |-> "parse_data_runs", pc |-> "loop", runs_read |-> 0,
               last_cluster_offset |-> 0, clusters |-> <<>>]

\* lines 405-462: one iteration of the loop, on the next run of the list
DataRun ==
    /\ call.op = "parse_data_runs" /\ call.pc = "loop"
    /\ call.runs_read < MaxDataRuns
    /\ \E run \in DataRuns :
          LET lcn == call.last_cluster_offset + run.cluster_offset_value
              clusters == IF run.has_offset
                          THEN Append(call.clusters,
                                      [lcn |-> lcn,
                                       count |-> Min(run.run_clusters, RunClusterLimit)])
                          ELSE call.clusters
          IN  call' = [call EXCEPT
                         !.runs_read = @ + 1,
                         !.last_cluster_offset = IF run.has_offset THEN lcn ELSE @,
                         !.clusters = clusters,
                         !.pc = IF ClusterCount(clusters) > ClusterSafetyLimit
                                THEN "done" ELSE "loop"]
    /\ onlyCall

\* lines 405-414 and 465: the list ends (its end, a zero header, or a field
\* that does not fit), and clusters is returned
DataRunsEnd ==
    /\ call.op = "parse_data_runs" /\ call.pc = "loop"
    /\ call' = [call EXCEPT !.pc = "done"]
    /\ onlyCall

NextRuns == DataRun \/ DataRunsEnd

SpecRuns == InitRuns /\ [][NextRuns]_vars

\* C20: parse_data_runs returns at most 50,000 clusters, for any run list.
C20_AtMostFiftyThousandClusters ==
    (call.op = "parse_data_runs" /\ call.pc = "done") =>
        ClusterCount(call.clusters) <= ClusterSafetyLimit

-----------------------------------------------------------------------------
\* The filesystem detector (core/file_system_detector.cpp)

EXT_MAGIC == 61267
EXT_SB_OFFSET == 1024
HfsPlusTag == 11080
BtrfsTagEnd == 65608

ExtTypes == {"EXT2", "EXT3", "EXT4"}

\* The buffer handed to detect_from_data, by the fields the detector reads.
\* superblock (at EXT_SB_OFFSET): magic (offset 56), s_inodes_count (0; its
\* two low bytes spell "H+" when it is HfsPlusTag), s_blocks_count (4),
\* s_log_block_size (24), and the feature bits tested (92, 96).
\* boot sector: bytes 0..10 (an OEM name at 3, or "XFSB" at 0), the boot
\* signature at 510, bytes per sector (11), sectors per cluster (13), and the
\* cluster count that lines 135-151 compute from the remaining fields.
\* btrfs: "_BHRfS_M" at 65600.  A field at or beyond `size` is not in the
\* buffer: it stands for whatever the memory after the buffer holds.
Superblocks ==
    [magic : {EXT_MAGIC, 0}, inodes_count : {0, 1000, HfsPlusTag},
     blocks_count : {0, 4000}, log_block_size : {2, 7, 4096},
     features : {"none", "journal", "extents"}]

BootSectors ==
    [head : {"NTFS    ", "EXFAT   ", "XFSB", "MSDOS5.0"}, signature : BOOLEAN,
     bytes_per_sector : {512, 4096}, sectors_per_cluster : {0, 3, 8},
     cluster_count : {100, 5000, 70000}]

DetectorSizes == {256, 512, 1024, 1287, 1288, 8192, 65536, BtrfsTagEnd}

DetectorBuffers ==
    [size : DetectorSizes, superblock : Superblocks, boot : BootSectors, btrfs : BOOLEAN]

\* (n & (n - 1)) == 0 for a non-zero byte
IsPowerOfTwo(n) == n \in {1, 2, 4, 8, 16, 32, 64, 128}

\* 1024 << s_log_block_size is undefined when the shift count is not below
\* the width of the operand
ShiftDefined(superblock) == superblock.log_block_size < 32

\* verify_ext_superblock; `undefined_shift` is the outcome of the comparison
\* of block_size when the shift is undefined
verify_ext_superblock(superblock, undefined_shift) ==
    /\ superblock.inodes_count > 0
    /\ superblock.blocks_count > 0
    /\ IF ShiftDefined(superblock)
       THEN LET block_size == 1024 * 2 ^ superblock.log_block_size
            IN  block_size >= 1024 /\ block_size <= 65536
       ELSE undefined_shift

detect_ext_filesystem(data, undefined_shift) ==
    IF data.size < EXT_SB_OFFSET + 264 THEN "UNKNOWN"
    ELSE IF data.superblock.magic # EXT_MAGIC THEN "UNKNOWN"
    ELSE IF ~verify_ext_superblock(data.superblock, undefined_shift) THEN "UNKNOWN"
    ELSE IF data.superblock.features = "extents" THEN "EXT4"
    ELSE IF data.superblock.features = "journal" THEN "EXT3"
    ELSE "EXT2"

\* verify_ntfs_boot_sector and verify_fat_boot_sector make the same test
verify_boot_sector(boot) ==
    /\ boot.bytes_per_sector = 512
    /\ boot.sectors_per_cluster > 0
    /\ IsPowerOfTwo(boot.sectors_per_cluster)

detect_ntfs_filesystem(data) ==
    IF data.size < 512 THEN "UNKNOWN"
    ELSE IF data.boot.head # "NTFS    " THEN "UNKNOWN"
    ELSE IF ~verify_boot_sector(data.boot) THEN "UNKNOWN"
    ELSE "NTFS"

detect_fat_filesystem(data) ==
    IF data.size < 512 THEN "UNKNOWN"
    ELSE IF ~data.boot.signature THEN "UNKNOWN"
    ELSE IF ~verify_boot_sector(data.boot) THEN "UNKNOWN"
    ELSE IF data.boot.cluster_count < 4085 THEN "FAT12"
    ELSE IF data.boot.cluster_count < 65525 THEN "FAT16"
    ELSE IF data.boot.head = "EXFAT   " THEN "EXFAT"
    ELSE "FAT32"

detect_other_filesystem(data) ==
    IF data.size < 512 THEN "UNKNOWN"
    ELSE IF data.size >= 1024 /\ data.superblock.inodes_count = HfsPlusTag THEN "HFS_PLUS"
    ELSE IF data.size >= 65536 /\ data.btrfs THEN "BTRFS"
    ELSE IF data.boot.head = "XFSB" THEN "XFS"
    ELSE "UNKNOWN"

FileSystemInfo(type) == [type |-> type, is_valid |-> type # "UNKNOWN"]

\* the NTFS check made before the ext check
detect_from_data_NtfsFirst(data, undefined_shift) ==
    IF data.size < 512 THEN FileSystemInfo("UNKNOWN")
    ELSE IF detect_ntfs_filesystem(data) # "UNKNOWN"
    THEN FileSystemInfo(detect_ntfs_filesystem(data))
    ELSE IF data.size >= EXT_SB_OFFSET + 264
            /\ detect_ext_filesystem(data, undefined_shift) # "UNKNOWN"
    THEN FileSystemInfo(detect_ext_filesystem(data, undefined_shift))
    ELSE IF detect_fat_filesystem(data) # "UNKNOWN"
    THEN FileSystemInfo(detect_fat_filesystem(data))
    ELSE FileSystemInfo(detect_other_filesystem(data))

detect_from_data(data, undefined_shift) ==
    IF data.size < 512 THEN FileSystemInfo("UNKNOWN")
    ELSE IF data.size >= EXT_SB_OFFSET + 264
            /\ detect_ext_filesystem(data, undefined_shift) # "UNKNOWN"
    THEN FileSystemInfo(detect_ext_filesystem(data, undefined_shift))
    ELSE IF detect_ntfs_filesystem(data) # "UNKNOWN"
    THEN FileSystemInfo(detect_ntfs_filesystem(data))
    ELSE IF detect_fat_filesystem(data) # "UNKNOWN"
    THEN FileSystemInfo(detect_fat_filesystem(data))
    ELSE FileSystemInfo(detect_other_filesystem(data))

\* The accesses one call makes, each as the index one past the last byte it
\* reads.  detect_ext_filesystem: the magic (superblock + 56, two bytes), then
\* verify_ext_superblock (up to superblock + 27), then the feature words (up
\* to superblock + 99).
ext_read_ends(data, undefined_shift) ==
    IF data.size < EXT_SB_OFFSET + 264 THEN {}
    ELSE {EXT_SB_OFFSET + 58}
         \cup (IF data.superblock.magic # EXT_MAGIC THEN {}
               ELSE {EXT_SB_OFFSET + 28}
                    \cup (IF verify_ext_superblock(data.superblock, undefined_shift)
                          THEN {EXT_SB_OFFSET + 100} ELSE {}))

\* detect_ntfs_filesystem: the OEM name (3..10), then verify_ntfs_boot_sector
ntfs_read_ends(data) ==
    IF data.size < 512 THEN {}
    ELSE {11} \cup (IF data.boot.head = "NTFS    " THEN {14} ELSE {})

\* detect_fat_filesystem: the boot signature (510, 511), then
\* verify_fat_boot_sector, then the fields up to sectors_per_fat (36..39)
fat_read_ends(data) ==
    IF data.size < 512 THEN {}
    ELSE {512}
         \cup (IF ~data.boot.signature THEN {}
               ELSE {14} \cup (IF verify_boot_sector(data.boot) THEN {40} ELSE {}))

\* detect_other_filesystem: memcmp(data + 1024, "H+", 2), then
\* memcmp(data + 65536 + 64, "_BHRfS_M", 8), then memcmp(data, "XFSB", 4)
other_read_ends(data) ==
    IF data.size < 512 THEN {}
    ELSE IF data.size >= 1024 /\ data.superblock.inodes_count = HfsPlusTag
    THEN {EXT_SB_OFFSET + 2}
    ELSE (IF data.size >= 1024 THEN {EXT_SB_OFFSET + 2} ELSE {})
         \cup (IF data.size >= 65536 /\ data.btrfs THEN {BtrfsTagEnd}
               ELSE (IF data.size >= 65536 THEN {BtrfsTagEnd} ELSE {}) \cup {4})

\* the accesses of detect_from_data, parse_ext_info (the volume name, up to
\* superblock + 135), parse_ntfs_info (up to 47) and parse_fat_info (the
\* volume label, up to 81) included
read_ends(data, undefined_shift) ==
    IF data.size < 512 THEN {}
    ELSE IF data.size >= EXT_SB_OFFSET + 264
            /\ detect_ext_filesystem(data, undefined_shift) # "UNKNOWN"
    THEN ext_read_ends(data, undefined_shift) \cup {EXT_SB_OFFSET + 136}
    ELSE ext_read_ends(data, undefined_shift) \cup ntfs_read_ends(data) \cup
         (IF detect_ntfs_filesystem(data) # "UNKNOWN" THEN {48}
          ELSE fat_read_ends(data) \cup
               (IF detect_fat_filesystem(data) # "UNKNOWN" THEN {82}
                ELSE other_read_ends(data)))

InitDetect ==
    /\ IdleEngine
    /\ \E d \in DetectorBuffers :
          call = [op |-> "detect_from_data", pc |-> "called", data |-> d,
                  info |-> FileSystemInfo("UNKNOWN"), read_ends |-> {}]

DetectFromData ==
    /\ call.op = "detect_from_data" /\ call.pc = "called"
    /\ \E undefined_shift \in BOOLEAN :
          call' = [call EXCEPT !.info = detect_from_data(call.data, undefined_shift),
                               !.read_ends = read_ends(call.data, undefined_shift),
                               !.pc = "done"]
    /\ onlyCall

NextDetect == DetectFromData

SpecDetect == InitDetect /\ [][NextDetect]_vars

\* what a buffer carries, read off its fields
CarriesExt(data) ==
    /\ data.size >= EXT_SB_OFFSET + 264
    /\ data.superblock.magic = EXT_MAGIC
    /\ data.superblock.inodes_count > 0 /\ data.superblock.blocks_count > 0
    /\ data.superblock.log_block_size \in 0..6

MayCarryExt(data) ==
    /\ data.size >= EXT_SB_OFFSET + 264
    /\ data.superblock.magic = EXT_MAGIC
    /\ data.superblock.inodes_count > 0 /\ data.superblock.blocks_count > 0
    /\ data.superblock.log_block_size \in (0..6) \cup {4096}

ValidBootSector(data) ==
    /\ data.size >= 512
    /\ data.boot.bytes_per_sector = 512
    /\ data.boot.sectors_per_cluster \in {1, 2, 4, 8, 16, 32, 64, 128}

CarriesNtfs(data) == ValidBootSector(data) /\ data.boot.head = "NTFS    "

CarriesFat(data) == ValidBootSector(data) /\ data.boot.signature

Detected == call.op = "detect_from_data" /\ call.pc = "done"

C29_DetectorReadsInsideBuffer ==
    Detected => \A end \in call.read_ends : end <= call.data.size

-----------------------------------------------------------------------------
\* The JPEG segment walks (carvers/jpeg_carver.cpp)

SegmentLimit == 100

\* the sizes handed to a walk (findJpegEnd passes more than 10 bytes on)
JpegSizes == {12, 210, 260}

\* What a walk finds at `offset`: a byte that is not 0xFF, a fill marker
\* (FF 00 or FF FF), the end marker FF D9, a restart marker FF D0..D7, or a
\* marker followed by a 16-bit length.  A walk never reads a byte twice, so
\* the bytes are drawn when they are read.
JpegMarkers ==
    {[kind |-> k, segment_length |-> 0] : k \in {"other", "fill", "EOI", "RST"}}
    \cup {[kind |-> "segment", segment_length |-> n] : n \in {1, 2, 3}}

InitJpeg ==
    /\ IdleEngine
    /\ \E f \in {"hasValidSegments", "estimateSizeFromSegments"}, s \in JpegSizes :
          call = [op |-> f, pc |-> "loop", size |-> s, offset |-> 2,
                  last_valid_offset |-> 2, segment_count |-> 0, result |-> 0]

\* hasValidSegments, lines 177-212: one iteration of the loop
HasValidSegmentsStep ==
    /\ call.op = "hasValidSegments" /\ call.pc = "loop"
    /\ call.offset < call.size - 1 /\ call.segment_count < SegmentLimit
    /\ \E m \in JpegMarkers :
          call' =
            IF m.kind = "other" THEN [call EXCEPT !.pc = "break"]
            ELSE IF m.kind = "fill" THEN [call EXCEPT !.offset = @ + 2]
            ELSE IF m.kind = "EOI" THEN [call EXCEPT !.result = 1, !.pc = "done"]
            ELSE IF m.kind = "RST"
            THEN [call EXCEPT !.offset = @ + 2, !.segment_count = @ + 1]
            ELSE IF call.offset + 3 >= call.size THEN [call EXCEPT !.pc = "break"]
            ELSE IF m.segment_length < 2 THEN [call EXCEPT !.pc = "break"]
            ELSE [call EXCEPT !.offset = @ + 2 + m.segment_length,
                              !.segment_count = @ + 1]
    /\ onlyCall

\* hasValidSegments, line 214: the loop has ended
HasValidSegmentsReturn ==
    /\ call.op = "hasValidSegments"
    /\ \/ call.pc = "break"
       \/ /\ call.pc = "loop"
          /\ ~(call.offset < call.size - 1 /\ call.segment_count < SegmentLimit)
    /\ call' = [call EXCEPT !.result = IF call.segment_count > 0 THEN 1 ELSE 0,
                            !.pc = "done"]
    /\ onlyCall

\* estimateSizeFromSegments, lines 221-254: one iteration of the loop
\* (segment_count counts the segments walked; the code keeps no such count.
\* This walk has no case for fill markers: it reads FF 00 as a marker with a
\* length, which is the "segment" kind.)
EstimateSizeStep ==
    /\ call.op = "estimateSizeFromSegments" /\ call.pc = "loop"
    /\ call.offset < call.size - 1
    /\ \E m \in JpegMarkers \ {[kind |-> "fill", segment_length |-> 0]} :
          call' =
            IF m.kind = "other" THEN [call EXCEPT !.pc = "break"]
            ELSE IF m.kind = "EOI"
            THEN [call EXCEPT !.result = call.offset + 2, !.pc = "done"]
            ELSE IF m.kind = "RST"
            THEN [call EXCEPT !.offset = @ + 2, !.last_valid_offset = call.offset + 2,
                              !.segment_count = @ + 1]
            ELSE IF call.offset + 3 >= call.size THEN [call EXCEPT !.pc = "break"]
            ELSE IF m.segment_length < 2
                    \/ call.offset + 2 + m.segment_length > call.size
            THEN [call EXCEPT !.pc = "break"]
            ELSE [call EXCEPT !.offset = @ + 2 + m.segment_length,
                              !.last_valid_offset = call.offset + 2 + m.segment_length,
                              !.segment_count = @ + 1]
    /\ onlyCall

\* estimateSizeFromSegments, line 256: the loop has ended
EstimateSizeReturn ==
    /\ call.op = "estimateSizeFromSegments"
    /\ \/ call.pc = "break"
       \/ call.pc = "loop" /\ ~(call.offset < call.size - 1)
    /\ call' = [call EXCEPT !.result = call.last_valid_offset, !.pc = "done"]
    /\ onlyCall

NextJpeg ==
    \/ HasValidSegmentsStep \/ HasValidSegmentsReturn
    \/ EstimateSizeStep \/ EstimateSizeReturn

SpecJpeg == InitJpeg /\ [][NextJpeg]_vars

\* C21: every walk of a JPEG segment chain stops after at most 100 segments,
\* or at max_size.
C21_WalkStopsWithinSegmentLimit ==
    (call.op \in {"hasValidSegments", "estimateSizeFromSegments"} /\ call.pc = "done") =>
        \/ call.segment_count <= SegmentLimit
        \/ call.offset >= call.size - 1

-----------------------------------------------------------------------------
\* Long filenames in the FAT32 directory walk

\* the long-filename entries that end at entry k without a gap
RECURSIVE LfnRun(_, _)
LfnRun(entries, k) ==
    IF k = 0 THEN <<>>
    ELSE IF entries[k].attributes # ATTR_LONG_NAME THEN <<>>
    ELSE Append(LfnRun(entries, k - 1), entries[k])

\* C22: in the FAT32 directory walk an entry whose attribute byte is 0x0F is
\* buffered as a long-filename component, and the next regular entry is given
\* the name assembled from the buffered components.
C22_LongNameGivenToNextEntry ==
    (call.op = "fat32" /\ call.pc = "done") =>
        LET entries == call.volume.dirs[call.volume.root_cluster]
        IN  \A k \in 1..(Len(entries) - 1) :
                (/\ entries[k].attributes = ATTR_LONG_NAME
                 /\ entries[k + 1].kind = "file"
                 /\ entries[k + 1].file_size > 0)
                => \E f \in Range(call.files) :
                       f.filename = extract_long_name(LfnRun(entries, k))

-----------------------------------------------------------------------------
\* The ZIP carver on one buffer (carvers/zip_carver.cpp)

\* sizeof(ZipLocalFileHeader), sizeof(ZipEndOfCentralDir)
LocalHeaderSize == 30
EocdSize == 22

ZipBufferSizes == {100, 1200}
ZipOffsets == {0, 40, 80}

\* What the carver finds at an offset where one of its three signatures
\* matches: which signature (1 = PK 03 04, 2 = PK 05 06), whether the other
\* header fields pass validate_local_file_header, the value of
\* calculate_zip_size there, whether find_end_of_central_directory finds a
\* record in the candidate, and whether its entropy lies in (3.0, 7.5).
ZipMatches ==
    [signature : {1, 2}, fields_valid : BOOLEAN, calculated_size : {0, 60, 2000},
     eocd : BOOLEAN, entropy_in_range : BOOLEAN]

NoMatch == [signature |-> 0]

\* a buffer: its size and what lies at each offset
ZipBuffers ==
    [size : ZipBufferSizes, at : [ZipOffsets -> ZipMatches \cup {NoMatch}]]

\* findPattern for signature s: the offsets where it matches, ascending
RECURSIVE ZipPattern(_, _, _)
ZipPattern(data, s, offsets) ==
    IF offsets = {} THEN <<>>
    ELSE LET o == CHOOSE x \in offsets : \A y \in offsets : x <= y
         IN  (IF data.at[o].signature = s THEN <<o>> ELSE <<>>)
                 \o ZipPattern(data, s, offsets \ {o})

validate_local_file_header(header) == header.signature = 1 /\ header.fields_valid

find_end_of_central_directory(header, size) == size >= EocdSize /\ header.eocd

\* calculateConfidence, in tenths
calculateConfidence(header, size) ==
    LET with_header ==
            5 + (IF size >= LocalHeaderSize /\ header.signature = 1
                 THEN 2 + (IF validate_local_file_header(header) THEN 1 ELSE 0)
                 ELSE 0)
        with_eocd ==
            IF find_end_of_central_directory(header, size)
            THEN with_header + 3 ELSE Min(with_header, 6)
        with_entropy == with_eocd + (IF header.entropy_in_range THEN 1 ELSE 0)
    IN  Min(with_entropy, 10)

\* carveFiles lines 49-86: the candidate made of the match at `offset`, if any
ZipCandidate(data, offset) ==
    LET header == data.at[offset]
        is_test_data == data.size < TestDataLimit
        calculated == header.calculated_size
        fallback == IF calculated = 0 THEN data.size - offset ELSE calculated
        zip_size == IF offset + fallback > data.size THEN data.size - offset ELSE fallback
    IN  IF offset + LocalHeaderSize > data.size THEN <<>>
        ELSE IF ~is_test_data /\ ~validate_local_file_header(header) THEN <<>>
        ELSE IF calculated = 0 /\ ~is_test_data THEN <<>>
        ELSE << [offset |-> offset, zip_size |-> zip_size,
                 confidence |->
                     IF is_test_data
                     THEN (IF find_end_of_central_directory(header, zip_size)
                           THEN 9 ELSE 6)
                     ELSE calculateConfidence(header, zip_size)] >>

RECURSIVE ZipCandidates(_, _)
ZipCandidates(data, offsets) ==
    IF offsets = <<>> THEN <<>>
    ELSE ZipCandidate(data, Head(offsets)) \o ZipCandidates(data, Tail(offsets))

\* std::sort by offset (lines 89-91); the offsets of the candidates differ
RECURSIVE SortByOffset(_)
SortByOffset(candidates) ==
    IF candidates = <<>> THEN <<>>
    ELSE LET k == CHOOSE j \in DOMAIN candidates :
                      \A m \in DOMAIN candidates : candidates[j].offset <= candidates[m].offset
         IN  <<candidates[k]>> \o SortByOffset(RemoveAt(candidates, k))

\* std::unique on equal offsets (lines 93-95)
RECURSIVE UniqueOffsets(_)
UniqueOffsets(candidates) ==
    IF Len(candidates) < 2 THEN candidates
    ELSE IF candidates[1].offset = candidates[2].offset
    THEN UniqueOffsets(<<candidates[1]>> \o SubSeq(candidates, 3, Len(candidates)))
    ELSE <<candidates[1]>> \o UniqueOffsets(Tail(candidates))

\* the loop of lines 97-117 without the test of line 102
EmitCandidates_KeepOverlaps(candidates, last_end, base_offset) ==
    [k \in DOMAIN candidates |->
        [file_type |-> "zip", start_offset |-> base_offset + candidates[k].offset,
         file_size |-> candidates[k].zip_size, is_fragmented |-> FALSE,
         confidence_score |-> Score(candidates[k].confidence, 10)]]

\* the loop of lines 97-117
RECURSIVE EmitCandidates(_, _, _)
EmitCandidates(candidates, last_end, base_offset) ==
    IF candidates = <<>> THEN <<>>
    ELSE LET cand == Head(candidates)
         IN  IF cand.offset < last_end
             THEN EmitCandidates(Tail(candidates), last_end, base_offset)
             ELSE << [file_type |-> "zip", start_offset |-> base_offset + cand.offset,
                      file_size |-> cand.zip_size, is_fragmented |-> FALSE,
                      confidence_score |-> Score(cand.confidence, 10)] >>
                  \o EmitCandidates(Tail(candidates), cand.offset + cand.zip_size,
                                    base_offset)

\* the candidates in the order lines 46-87 collect them
CollectCandidates(data) ==
    ZipCandidates(data, ZipPattern(data, 1, ZipOffsets) \o ZipPattern(data, 2, ZipOffsets))

InitZip ==
    /\ IdleEngine
    /\ \E d \in ZipBuffers, b \in {4096} :
          call = [op |-> "zip", pc |-> "called", data |-> d, base_offset |-> b,
                  candidates |-> <<>>, recovered_files |-> <<>>]

\* ZipCarver::carveFiles
ZipCarveFiles ==
    /\ call.op = "zip" /\ call.pc = "called"
    /\ LET candidates == CollectCandidates(call.data)
       IN  call' = [call EXCEPT
                      !.candidates = candidates,
                      !.recovered_files =
                          IF call.data.size < 4 THEN <<>>
                          ELSE EmitCandidates(UniqueOffsets(SortByOffset(candidates)), 0,
                                              call.base_offset),
                      !.pc = "done"]
    /\ onlyCall

NextZip == ZipCarveFiles

SpecZip == InitZip /\ [][NextZip]_vars

\* C23: the ZIP records returned by one carveFiles call are in increasing
\* start order and pairwise non-overlapping: every record starts at or after
\* the end of the record emitted before it.
C23_ZipRecordsOrderedDisjoint ==
    (call.op = "zip" /\ call.pc = "done") =>
        \A k \in 2..Len(call.recovered_files) :
            LET before == call.recovered_files[k - 1]
                this == call.recovered_files[k]
            IN  /\ this.start_offset > before.start_offset
                /\ this.start_offset >= before.start_offset + before.file_size

\* two records were returned and an overlapping candidate was dropped
C23_Witness ==
    /\ call.op = "zip" /\ call.pc = "done"
    /\ Len(call.recovered_files) = 2
    /\ Len(call.candidates) = 3

\* C24: a ZIP candidate in which no end-of-central-directory record is found
\* receives a total confidence of at most 0.6.
C24_NoEocdAtMostSixTenths ==
    (call.op = "zip" /\ call.pc = "done") =>
        \A f \in Range(call.recovered_files) :
            LET header == call.data.at[f.start_offset - call.base_offset]
            IN  ~find_end_of_central_directory(header, f.file_size)
                    => Leq(f.confidence_score, Score(6, 10))

-----------------------------------------------------------------------------
\* Two client threads calling startRecovery() on one engine
\* (core/recovery_engine.cpp, lines 33-42 and 115-116)

Clients == {1, 2}
MaxCalls == 2

entryUnchanged ==
    UNCHANGED <<config_, image, hardware_concurrency, scanVars, results_mutex_,
                output_files, callerVars, taskVars, stopVars, histVars>>

InitEntry ==
    /\ IdleEngine
    /\ call = [op |-> "startRecovery",
               client |-> [t \in Clients |-> [pc |-> "idle", calls |-> 0,
                                               status |-> "NONE"]]]

\* line 34: the load of is_running_, and lines 35-36 when it is set
EntryCheck(t) ==
    /\ call.op = "startRecovery"
    /\ call.client[t].pc = "idle" /\ call.client[t].calls < MaxCalls
    /\ call' = [call EXCEPT
                  !.client[t] =
                      IF is_running_
                      THEN [pc |-> "idle", calls |-> @.calls + 1, status |-> "FAILED"]
                      ELSE [@ EXCEPT !.pc = "set_running"]]
    /\ UNCHANGED <<is_running_, should_stop_, current_progress_, recovered_files_>>
    /\ entryUnchanged

\* line 40: the store to is_running_
EntrySetRunning(t) ==
    /\ call.op = "startRecovery" /\ call.client[t].pc = "set_running"
    /\ is_running_' = TRUE
    /\ call' = [call EXCEPT !.client[t].pc = "reset"]
    /\ UNCHANGED <<should_stop_, current_progress_, recovered_files_>>
    /\ entryUnchanged

\* lines 41-42
EntryResetFlags(t) ==
    /\ call.op = "startRecovery" /\ call.client[t].pc = "reset"
    /\ should_stop_' = FALSE
    /\ current_progress_' = Pct(0)
    /\ call' = [call EXCEPT !.client[t].pc = "running"]
    /\ UNCHANGED <<is_running_, recovered_files_>>
    /\ entryUnchanged

\* lines 44-108 on the device of IdleEngine, which holds no file: the
\* progress reports of the run, up to the last one
EntryRun(t) ==
    /\ call.op = "startRecovery" /\ call.client[t].pc = "running"
    /\ current_progress_' = Pct(100)
    /\ call' = [call EXCEPT !.client[t].pc = "finish"]
    /\ UNCHANGED <<is_running_, should_stop_, recovered_files_>>
    /\ entryUnchanged

\* lines 115-116
EntryFinish(t) ==
    /\ call.op = "startRecovery" /\ call.client[t].pc = "finish"
    /\ is_running_' = FALSE
    /\ call' = [call EXCEPT
                  !.client[t] = [pc |-> "idle", calls |-> @.calls + 1,
                                 status |-> "SUCCESS"]]
    /\ UNCHANGED <<should_stop_, current_progress_, recovered_files_>>
    /\ entryUnchanged

NextEntry ==
    \E t \in Clients :
        \/ EntryCheck(t) \/ EntrySetRunning(t) \/ EntryResetFlags(t)
        \/ EntryRun(t) \/ EntryFinish(t)

SpecEntry == InitEntry /\ [][NextEntry]_vars

\* client t is past the entry check of a call that has not returned
InsideRun(t) == call.client[t].pc \in {"set_running", "reset", "running", "finish"}

\* C25: at most one recovery run executes at a time on an engine, also when
\* two calls of startRecovery() race from different threads.
C25_AtMostOneRunAtATime ==
    call.op = "startRecovery" => ~(InsideRun(1) /\ InsideRun(2))

-----------------------------------------------------------------------------
\* ProgressTracker, called by one thread (utils/progress_tracker.cpp)

MaxTrackerCalls == 3

TrackerMethods ==
    {"set_total_bytes", "set_current_operation", "set_current_file_type",
     "set_callback", "start", "stop"}

Frame(fn, at) == [fn |-> fn, pc |-> at, holds |-> FALSE]

\* locking a std::mutex the calling thread already owns is undefined: the
\* thread blocks for ever, or lock() throws std::system_error
RelockOutcomes == {"blocked", "threw"}

InitTracker ==
    /\ IdleEngine
    /\ call = [op |-> "ProgressTracker", active_ |-> FALSE, callback_ |-> FALSE,
               mutex_ |-> Unlocked, stack |-> <<>>, calls |-> 0, state |-> "idle"]

Top == call.stack[Len(call.stack)]

WithTop(frame) == [call.stack EXCEPT ![Len(call.stack)] = frame]

\* a method is called; start() and stop() first store to active_ (lines 91, 101)
TrackerCall ==
    /\ call.op = "ProgressTracker" /\ call.state \in {"idle", "threw"}
    /\ call.stack = <<>> /\ call.calls < MaxTrackerCalls
    /\ \E m \in TrackerMethods :
          call' = [call EXCEPT
                     !.calls = @ + 1,
                     !.state = "idle",
                     !.active_ = IF m = "start" THEN TRUE
                                 ELSE IF m = "stop" THEN FALSE ELSE @,
                     !.stack = << Frame(m, IF m = "set_total_bytes" THEN "body"
                                           ELSE "lock") >>]
    /\ onlyCall

\* std::lock_guard<std::mutex> lock(mutex_), the mutex being free
TrackerLock ==
    /\ call.op = "ProgressTracker" /\ call.state = "idle" /\ call.stack # <<>>
    /\ Top.pc = "lock" /\ call.mutex_ = Unlocked
    /\ call' = [call EXCEPT !.mutex_ = HeldBy(1),
                            !.stack = WithTop([Top EXCEPT !.pc = "body", !.holds = TRUE])]
    /\ onlyCall

\* std::lock_guard<std::mutex> lock(mutex_), the caller owning the mutex
TrackerRelock ==
    /\ call.op = "ProgressTracker" /\ call.state = "idle" /\ call.stack # <<>>
    /\ Top.pc = "lock" /\ call.mutex_ = HeldBy(1)
    /\ \E outcome \in RelockOutcomes :
          call' = IF outcome = "blocked"
                  THEN [call EXCEPT !.state = "blocked"]
                  ELSE [call EXCEPT !.state = "threw", !.stack = <<>>,
                                    !.mutex_ = Unlocked]
    /\ onlyCall

\* the statements of a method after its lock_guard
TrackerBody ==
    /\ call.op = "ProgressTracker" /\ call.state = "idle" /\ call.stack # <<>>
    /\ Top.pc = "body"
    /\ LET returning == WithTop([Top EXCEPT !.pc = "return"])
       IN  IF Top.fn = "set_callback"
           THEN call' = [call EXCEPT !.callback_ = TRUE, !.stack = returning]
           ELSE IF Top.fn = "get_progress"
           THEN call' = [call EXCEPT !.stack = returning]
           ELSE IF Top.fn = "notify_progress"
           THEN call' = [call EXCEPT
                           !.stack = IF call.callback_
                                     THEN Append(returning, Frame("get_progress", "lock"))
                                     ELSE returning]
           ELSE call' = [call EXCEPT
                           !.stack = Append(returning, Frame("notify_progress", "check"))]
    /\ onlyCall

\* notify_progress, line 127
TrackerCheckActive ==
    /\ call.op = "ProgressTracker" /\ call.state = "idle" /\ call.stack # <<>>
    /\ Top.pc = "check"
    /\ call' = [call EXCEPT
                  !.stack = WithTop([Top EXCEPT !.pc = IF call.active_ THEN "lock"
                                                       ELSE "return"])]
    /\ onlyCall

\* the method returns; its lock_guard releases the mutex
TrackerReturn ==
    /\ call.op = "ProgressTracker" /\ call.state = "idle" /\ call.stack # <<>>
    /\ Top.pc = "return"
    /\ call' = [call EXCEPT
                  !.mutex_ = IF Top.holds THEN Unlocked ELSE @,
                  !.stack = SubSeq(call.stack, 1, Len(call.stack) - 1)]
    /\ onlyCall

NextTracker ==
    \/ TrackerCall \/ TrackerLock \/ TrackerRelock \/ TrackerBody
    \/ TrackerCheckActive \/ TrackerReturn

SpecTracker == InitTracker /\ [][NextTracker]_vars

\* C26: no call of start(), stop(), set_current_operation() or
\* set_current_file_type() blocks for ever on the tracker's own mutex.
C26_NoCallBlocksOnOwnMutex ==
    call.op = "ProgressTracker" =>
        ~(/\ call.state = "blocked"
          /\ call.stack[1].fn \in {"start", "stop", "set_current_operation",
                                   "set_current_file_type"})

-----------------------------------------------------------------------------
\* C28: the progress value 100 is delivered only by a call whose
\* post-processing (deduplication and saving) was carried out; a call cut
\* short by stopRecovery() never reports 100.
C28_HundredOnlyAfterPostProcessing ==
    \A k \in DOMAIN progress_log :
        Leq(Pct(100), progress_log[k].value) => "post" \in hist.phases

-----------------------------------------------------------------------------
\* getRecoveredFileCount() and getRecoveredFiles(), called by a client thread
\* while the caller is inside startRecovery() (core/recovery_engine.h, 57-67)

MaxGetterCalls == 2

Getters == {"getRecoveredFileCount", "getRecoveredFiles"}

\* the sizes of metadata_files and signature_files, and the duplicates among
\* them that deduplicateFiles() erases
FoundCounts == [metadata : 0..1, signature : 0..2, duplicates : 0..1]

InitGetters ==
    /\ IdleEngine
    /\ \E use_metadata_recovery, use_signature_recovery \in BOOLEAN, found \in FoundCounts :
          call = [op |-> "getRecoveredFiles",
                  use_metadata_recovery |-> use_metadata_recovery,
                  use_signature_recovery |-> use_signature_recovery,
                  found |-> found,
                  pc |-> "phase1",           \* the caller, in startRecovery()
                  modifying |-> FALSE,       \* the caller is inside insert/sort/erase
                  results_mutex_ |-> Unlocked,
                  size |-> 0,                \* recovered_files_.size()
                  getter |-> "none",         \* the getter the client is inside
                  calls |-> 0,
                  overlapped |-> {}]         \* getters that ran during a modification

Overlap(c) ==
    IF c.modifying /\ c.getter # "none" THEN c.overlapped \cup {c.getter}
    ELSE c.overlapped

\* lines 66-72 and 78-84: the phase is skipped, or its result is inserted
\* under std::lock_guard<std::mutex> lock(results_mutex_)
MergeBegin ==
    /\ call.op = "getRecoveredFiles" /\ call.pc \in {"phase1", "phase2"}
    /\ ~call.modifying
    /\ LET enabled == IF call.pc = "phase1" THEN call.use_metadata_recovery
                      ELSE call.use_signature_recovery
           after == IF call.pc = "phase1" THEN "phase2" ELSE "phase3"
       IN  IF enabled
           THEN LET c == [call EXCEPT !.results_mutex_ = HeldBy(Caller),
                                      !.modifying = TRUE]
                IN  call' = [c EXCEPT !.overlapped = Overlap(c)]
           ELSE call' = [call EXCEPT !.pc = after]
    /\ onlyCall

\* the insert is done; the lock_guard is released at the end of the block
MergeEnd ==
    /\ call.op = "getRecoveredFiles" /\ call.pc \in {"phase1", "phase2"}
    /\ call.modifying
    /\ call' = [call EXCEPT
                  !.size = @ + (IF call.pc = "phase1" THEN call.found.metadata
                                ELSE call.found.signature),
                  !.modifying = FALSE,
                  !.results_mutex_ = Unlocked,
                  !.pc = IF call.pc = "phase1" THEN "phase2" ELSE "phase3"]
    /\ onlyCall

\* deduplicateFiles(), lines 335-349: sort, unique and erase, with no lock
DedupBegin ==
    /\ call.op = "getRecoveredFiles" /\ call.pc = "phase3" /\ ~call.modifying
    /\ LET c == [call EXCEPT !.modifying = TRUE]
       IN  call' = [c EXCEPT !.overlapped = Overlap(c)]
    /\ onlyCall

DedupEnd ==
    /\ call.op = "getRecoveredFiles" /\ call.pc = "phase3" /\ call.modifying
    /\ call' = [call EXCEPT
                  !.size = IF @ > call.found.duplicates THEN @ - call.found.duplicates
                           ELSE @,
                  !.modifying = FALSE,
                  !.pc = "done"]
    /\ onlyCall

\* the client enters a getter: neither takes results_mutex_
GetterBegin ==
    /\ call.op = "getRecoveredFiles" /\ call.getter = "none"
    /\ call.calls < MaxGetterCalls
    /\ \E g \in Getters :
          LET c == [call EXCEPT !.getter = g, !.calls = @ + 1]
          IN  call' = [c EXCEPT !.overlapped = Overlap(c)]
    /\ onlyCall

\* the client has read size(), or the elements behind the returned reference
GetterEnd ==
    /\ call.op = "getRecoveredFiles" /\ call.getter # "none"
    /\ call' = [call EXCEPT !.getter = "none"]
    /\ onlyCall

NextGetters ==
    \/ MergeBegin \/ MergeEnd \/ DedupBegin \/ DedupEnd \/ GetterBegin \/ GetterEnd

SpecGetters == InitGetters /\ [][NextGetters]_vars

\* C27: no read of recovered_files_ through getRecoveredFileCount() or
\* getRecoveredFiles() overlaps in time with a modification of the list by
\* the running startRecovery().
C27_GettersNeverOverlapModification ==
    call.op = "getRecoveredFiles" => call.overlapped = {}

=============================================================================
